---- MODULE Spec2Model ----
(***************************************************************************)
(* Model of the replication smoke-test harness of SpacetimeDB              *)
(* (smoketests/tests/replication.py): the bounded-retry helper `retry`,    *)
(* the leader lookup `Cluster.get_leader_info` and the polling loop        *)
(* `Cluster.wait_for_leader_change`, run against a control database whose  *)
(* leader is changed by the external cluster.                              *)
(*                                                                         *)
(* Python values: None is modelled by the integer -1 (get_int only yields  *)
(* naturals, so -1 is distinct from every id); Python strings that the     *)
(* code parses are sequences of one-character strings.                     *)
(***************************************************************************)
EXTENDS Integers, Sequences, FiniteSets, TLC

\* ------------------------------------------------------------------ bounds
MaxRetries == 3
MaxAttempts == 3

\* the number of containers the tests keep failed at the same time
MaxDown == 1

\* the size of the query results given to parse_sql_result
MaxCols == 2

MaxRows == 2

\* the number of spacetimedb containers restart_docker finds listed
MaxListed == 2

\* the number of test suites handed to the parallel runner
MaxSuites == 2

\* the largest --jobs value and the largest os.cpu_count()
MaxJobs == 2

\* most class suites a member of the discovered suite holds
MaxClasses == 2

\* the number of suites submitted in a run with failfast
MaxQueued == 3

\* ------------------------------------------------------- python primitives
None == -1

DigitChars == <<"0", "1", "2", "3", "4", "5", "6", "7", "8", "9">>

IsDigit(c) == \E i \in 1..10 : DigitChars[i] = c

DigitVal(c) == (CHOOSE i \in 1..10 : DigitChars[i] = c) - 1

IsSpace(c) == c \in {" ", "\n", "\t"}

RECURSIVE IntToStr(_)
\* str(n) / f"{n}" for a natural n: its decimal digits
IntToStr(n) ==
    IF n < 10 THEN <<DigitChars[n + 1]>>
    ELSE IntToStr(n \div 10) \o <<DigitChars[(n % 10) + 1]>>

RECURSIVE SkipNonDigits(_)
SkipNonDigits(s) ==
    IF s = <<>> THEN <<>>
    ELSE IF IsDigit(Head(s)) THEN s
    ELSE SkipNonDigits(Tail(s))

RECURSIVE TakeDigits(_)
TakeDigits(s) ==
    IF s = <<>> THEN <<>>
    ELSE IF IsDigit(Head(s)) THEN <<Head(s)>> \o TakeDigits(Tail(s))
    ELSE <<>>

\* re.search(r'\d+', text): the first maximal run of digits, <<>> for no match
SearchDigits(text) == TakeDigits(SkipNonDigits(text))

RECURSIVE ParseInt(_)
\* int(digits) for a non-empty digit string
ParseInt(ds) ==
    IF Len(ds) = 1 THEN DigitVal(ds[1])
    ELSE ParseInt(SubSeq(ds, 1, Len(ds) - 1)) * 10 + DigitVal(ds[Len(ds)])

\* get_int raises (AttributeError on None.group()) when text has no digit
get_int_raises(text) == SearchDigits(text) = <<>>

get_int(text) == ParseInt(SearchDigits(text))

RECURSIVE SortedSeq(_)
\* the elements of a set of naturals in ascending order
SortedSeq(S) ==
    IF S = {} THEN <<>>
    ELSE LET least == CHOOSE x \in S : \A y \in S : x <= y
         IN  <<least>> \o SortedSeq(S \ {least})

\* str.split(c) for a one-character separator: the pieces between the
\* occurrences of c
Split(s, c) ==
    LET cuts == SortedSeq({i \in 1..Len(s) : s[i] = c})
        n == Len(cuts)
    IN  [k \in 1..(n + 1) |->
            SubSeq(s, IF k = 1 THEN 1 ELSE cuts[k - 1] + 1,
                      IF k = n + 1 THEN Len(s) ELSE cuts[k] - 1)]

\* str.splitlines(): a trailing newline opens no further line
splitlines(s) ==
    LET p == Split(s, "\n")
    IN  IF p[Len(p)] = <<>> THEN SubSeq(p, 1, Len(p) - 1) ELSE p

IsPrefix(p, s) == Len(p) <= Len(s) /\ SubSeq(s, 1, Len(p)) = p

RECURSIVE Contains(_, _)
\* Python's `needle in hay` on strings
Contains(hay, needle) ==
    \/ IsPrefix(needle, hay)
    \/ (hay # <<>> /\ Contains(Tail(hay), needle))

RECURSIVE JoinLines(_)
JoinLines(ls) ==
    IF ls = <<>> THEN <<>>
    ELSE Head(ls) \o <<"\n">> \o JoinLines(Tail(ls))

\* ------------------------------------------------------------------ retry
\* what func() may do on one invocation: return one of these values, or raise
\* an Exception
FuncValues == {"None", "ok", "False"}

\* `for attempt in range(1, max_retries + 1)`: attempt is in the range
RetryInRange(attempt, max_retries) == attempt <= max_retries

\* `<=` written for `<`: the last failed attempt also logs a failure and sleeps
RetryAgain_OffByOne(attempt, max_retries) == attempt <= max_retries

\* retry's `if attempt < max_retries` (replication.py:108)
RetryAgain(attempt, max_retries) == attempt < max_retries

\* the exhausted branch re-raises instead of returning
RetryExhausted_Reraise == [outcome |-> "raised", value |-> "unset"]

\* the else branch of the handler: `return False` (replication.py:113)
RetryExhausted == [outcome |-> "returned", value |-> "False"]

\* both branches print the give-up line
RetryLogLine_GiveUpAlways(attempt, max_retries) == <<"giveup", 0>>

\* the line the handler prints (replication.py:109, 112)
RetryLogLine(attempt, max_retries) ==
    IF RetryAgain(attempt, max_retries) THEN <<"failed", attempt>>
    ELSE <<"giveup", 0>>

VARIABLES
    r_pc,        \* "idle" | "call" (about to invoke func) | "sleep" | "done"
    r_max,       \* max_retries of the running call
    r_attempt,   \* loop variable `attempt`
    r_calls,     \* history of func invocations: "raise" or the value returned
    r_sleeps,    \* number of time.sleep(retry_delay) calls
    r_log,       \* printed lines: <<"failed", attempt>> or <<"giveup", 0>>
    r_outcome,   \* "none" | "returned" | "raised"
    r_result     \* the value retry returned ("unset" until it returns)

retry_vars == <<r_pc, r_max, r_attempt, r_calls, r_sleeps, r_log, r_outcome,
                r_result>>

RetryInit ==
    /\ r_pc = "idle"
    /\ r_max = 0
    /\ r_attempt = 0
    /\ r_calls = <<>>
    /\ r_sleeps = 0
    /\ r_log = <<>>
    /\ r_outcome = "none"
    /\ r_result = "unset"

\* retry(func, max_retries, retry_delay) is entered; range(1, max_retries + 1)
RetryCall(n) ==
    /\ r_pc = "idle"
    /\ r_max' = n
    /\ r_attempt' = 1
    /\ r_pc' = "call"
    /\ UNCHANGED <<r_calls, r_sleeps, r_log, r_outcome, r_result>>

\* the loop takes the next attempt, or runs out and the function ends without
\* a return statement (None)
RetryNextAttempt ==
    IF RetryInRange(r_attempt + 1, r_max)
    THEN /\ r_attempt' = r_attempt + 1
         /\ r_pc' = "call"
         /\ UNCHANGED <<r_outcome, r_result>>
    ELSE /\ r_pc' = "done"
         /\ r_outcome' = "returned"
         /\ r_result' = "None"
         /\ UNCHANGED r_attempt

\* func() is called without `return`: the loop goes on after a success
RetryAttemptReturns_NoReturn(v) ==
    /\ r_pc = "call"
    /\ r_calls' = Append(r_calls, v)
    /\ RetryNextAttempt
    /\ UNCHANGED <<r_max, r_sleeps, r_log>>

\* `return func()`: the invocation returns v (replication.py:106)
RetryAttemptReturns(v) ==
    /\ r_pc = "call"
    /\ r_calls' = Append(r_calls, v)
    /\ r_outcome' = "returned"
    /\ r_result' = v
    /\ r_pc' = "done"
    /\ UNCHANGED <<r_max, r_attempt, r_sleeps, r_log>>

\* func() raises an Exception: the except branch (replication.py:107-113)
RetryAttemptRaises ==
    /\ r_pc = "call"
    /\ r_calls' = Append(r_calls, "raise")
    /\ r_log' = Append(r_log, RetryLogLine(r_attempt, r_max))
    /\ IF RetryAgain(r_attempt, r_max)
       THEN /\ r_sleeps' = r_sleeps + 1
            /\ r_pc' = "sleep"
            /\ UNCHANGED <<r_outcome, r_result>>
       ELSE /\ r_outcome' = RetryExhausted.outcome
            /\ r_result' = RetryExhausted.value
            /\ r_pc' = "done"
            /\ UNCHANGED r_sleeps
    /\ UNCHANGED <<r_max, r_attempt>>

\* time.sleep(retry_delay) returns (replication.py:110); back to the loop head
RetrySleepDone ==
    /\ r_pc = "sleep"
    /\ RetryNextAttempt
    /\ UNCHANGED <<r_max, r_calls, r_sleeps, r_log>>

\* retry has left its frame; the harness is ready for the next call
RetryReturn ==
    /\ r_pc = "done"
    /\ r_pc' = "idle"
    /\ r_max' = 0
    /\ r_attempt' = 0
    /\ r_calls' = <<>>
    /\ r_sleeps' = 0
    /\ r_log' = <<>>
    /\ r_outcome' = "none"
    /\ r_result' = "unset"

RetryStep ==
    \/ \E v \in FuncValues : RetryAttemptReturns(v)
    \/ RetryAttemptRaises
    \/ RetrySleepDone
    \/ RetryReturn

\* ------------------------------------------------- control plane (external)
\* the numeric id of the test's database in the control database
DbId == 3

\* replica ids of the database, and the node hosting each
ReplicaIds == {4, 5, 6, 7, 8, 9}

NodeOf == (4 :> 1) @@ (5 :> 2) @@ (6 :> 10) @@ (7 :> 3) @@ (8 :> 11) @@ (9 :> 12)

NodeIds == {NodeOf[r] : r \in ReplicaIds}

\* the nodes that have a row in the node table (node 12 has been dropped)
NodeRows == NodeIds \ {12}

\* the nodes whose network_addr is none (node 3 advertises no address)
NoAddrNodes == {3}

\* the identities the test can hold, and the database id of each
IdentityA == <<"a", "1">>

IdentityB == <<"b", "2">>

Identities == {IdentityA, IdentityB}

DbIdOf == (IdentityA :> DbId) @@ (IdentityB :> 13)

DatabaseIds == {DbIdOf[i] : i \in Identities}

\* self.test.database_identity: the attribute publish_module assigns
VARIABLE database_identity

\* replication_state has no row for the database (no leader elected yet)
NoRow == 0

S_id == <<"i", "d">>

S_leader == <<"l", "e", "a", "d", "e", "r">>

S_node_id == <<"n", "o", "d", "e", "_", "i", "d">>

S_network_addr == <<"n", "e", "t", "w", "o", "r", "k", "_", "a", "d", "d", "r">>

S_some == <<"(", "s", "o", "m", "e", " ", "=">>

\* the network_addr cell of a node that advertises no address: (none = ())
NoneCell == <<"(", "n", "o", "n", "e", " ", "=", " ", "(", ")", ")">>

\* the host name a node advertises: n1, n2, n10
HostOf(node) == <<"n">> \o IntToStr(node)

\* the network_addr cell of a node: (some = "<host>:80")
AddrCell(node) ==
    S_some \o <<" ", "\"">> \o HostOf(node) \o <<":", "8", "0", "\"", ")">>

Pad(cell) == <<" ">> \o cell \o <<" ">>

Dashes(header) == [i \in 1..(Len(header) + 2) |-> "-"]

\* stdout of `spacetime sql`: header row, separator row, one line per data row
RenderTable(header, cells) ==
    JoinLines(<<Pad(header), Dashes(header)>>
              \o [i \in 1..Len(cells) |-> Pad(cells[i])])

\* the identity is the one the test held when the Cluster was built
DatabaseTable_AtConstruction == RenderTable(S_id, <<IntToStr(DbIdOf[IdentityA])>>)

\* select id from database where database_identity=0x<identity>
DatabaseTable == RenderTable(S_id, <<IntToStr(DbIdOf[database_identity])>>)

\* select leader from replication_state where database_id=<database_id>
LeaderTable(database_id, ldr) ==
    RenderTable(S_leader,
                IF database_id \in DatabaseIds /\ ldr # NoRow
                THEN <<IntToStr(ldr)>> ELSE <<>>)

\* select node_id from replica where id=<replica_id>
ReplicaNodeTable(replica_id) ==
    RenderTable(S_node_id,
                IF replica_id \in ReplicaIds
                THEN <<IntToStr(NodeOf[replica_id])>> ELSE <<>>)

\* select network_addr from node where id=<node_id>
NodeAddrTable(node_id) ==
    RenderTable(S_network_addr,
                IF node_id \in NodeRows
                THEN <<IF node_id \in NoAddrNodes THEN NoneCell
                       ELSE AddrCell(node_id)>>
                ELSE <<>>)

\* ------------------------------------------------ container runtime (external)
\* the containers of the compose project, in the order `compose ps` lists them
Containers ==
    << [id |-> <<"c", "1">>, name |-> <<"p", "-">> \o HostOf(1) \o <<"-", "1">>],
       [id |-> <<"c", "2">>, name |-> <<"p", "-">> \o HostOf(2) \o <<"-", "1">>],
       [id |-> <<"c", "3">>, name |-> <<"p", "-">> \o HostOf(10) \o <<"-", "1">>] >>

ContainerIds == {Containers[i].id : i \in 1..Len(Containers)}

\* run state and network attachment of each container, by position
VARIABLE cstate

ContainerUp == [running |-> TRUE, connected |-> TRUE]

RECURSIVE PsLines(_, _)
\* the lines of `ps`: with -a every container, without it the running ones
PsLines(i, all) ==
    IF i > Len(Containers) THEN <<>>
    ELSE (IF all \/ cstate[i].running
          THEN <<Containers[i].id \o <<" ">> \o Containers[i].name>>
          ELSE <<>>) \o PsLines(i + 1, all)

\* `ps` is run without -a
PsAllFlag_Off == FALSE

\* the "-a" argument of the ps command (replication.py:52, docker.py:144)
PsAllFlag == TRUE

\* the listing is done with a command that starts the containers
ListCommand_Restart == "restart"

\* the compose command of list_containers: compose("ps", "-a", "--format", ...)
ListCommand == "ps"

\* what a compose command does to the containers: ps only lists them,
\* restart leaves every one of them running
ComposeEffect(cmd, state) ==
    IF cmd = "restart"
    THEN [i \in 1..Len(Containers) |-> [state[i] EXCEPT !.running = TRUE]]
    ELSE state

\* stdout of `docker compose ps -a --format "{{.ID}} {{.Name}}"`
ComposePsOutput == JoinLines(PsLines(1, PsAllFlag))

RECURSIVE LStrip(_)
LStrip(s) ==
    IF s # <<>> /\ IsSpace(Head(s)) THEN LStrip(Tail(s)) ELSE s

RECURSIVE RStrip(_)
RStrip(s) ==
    IF s # <<>> /\ IsSpace(s[Len(s)]) THEN RStrip(SubSeq(s, 1, Len(s) - 1)) ELSE s

\* str.strip()
Strip(s) == LStrip(RStrip(s))

RECURSIVE TakeWord(_)
TakeWord(s) ==
    IF s = <<>> \/ IsSpace(Head(s)) THEN <<>>
    ELSE <<Head(s)>> \o TakeWord(Tail(s))

\* line.split(maxsplit=1): first word, and the rest if there is one
split_max1(line) ==
    LET a == LStrip(line)
        w == TakeWord(a)
        rest == LStrip(SubSeq(a, Len(w) + 1, Len(a)))
    IN  IF w = <<>> THEN <<>>
        ELSE IF rest = <<>> THEN <<w>>
        ELSE <<w, rest>>

RECURSIVE ParseContainers(_)
\* the loop of DockerManager.list_containers over the non-blank lines
ParseContainers(ls) ==
    IF ls = <<>> THEN <<>>
    ELSE IF Strip(Head(ls)) = <<>> THEN ParseContainers(Tail(ls))
    ELSE <<[id |-> split_max1(Head(ls))[1], name |-> split_max1(Head(ls))[2]]>>
         \o ParseContainers(Tail(ls))

\* DockerManager.list_containers on the (stripped) output of compose ps
list_containers(output) == ParseContainers(splitlines(Strip(output)))

RECURSIVE FindContainerId(_, _)
\* get_leader_info's loop: id of the first container whose name contains
\* hostname, "" when there is none
FindContainerId(containers, hostname) ==
    IF containers = <<>> THEN <<>>
    ELSE IF Contains(Head(containers).name, hostname) THEN Head(containers).id
    ELSE FindContainerId(Tail(containers), hostname)

\* get_leader_info's hostname extraction from the network_addr table text
HostnameOf(leader_host_tb) ==
    LET lines == splitlines(leader_host_tb)
    IN  IF Len(lines) = 3 /\ Contains(lines[3], S_some)
        THEN Split(Split(lines[3], "\"")[2], ":")[1]
        ELSE <<>>

\* address = leader_row.split('"')[1] raises IndexError without a quote
HostnameRaises(leader_host_tb) ==
    LET lines == splitlines(leader_host_tb)
    IN  /\ Len(lines) = 3
        /\ Contains(lines[3], S_some)
        /\ Len(Split(lines[3], "\"")) < 2

\* the leader replica recorded by replication_state, NoRow for none
VARIABLE leader

\* the external cluster elects another leader, or is left without one
LeaderChange ==
    /\ \E l \in (ReplicaIds \cup {NoRow}) \ {leader} : leader' = l
    /\ UNCHANGED <<retry_vars, cstate, database_identity>>

\* ------------------------------------------------- Cluster.get_leader_info
\* what a poll observed, for polls that returned no node id
NoLeaderSeen == -2

CmdFailedSeen == -3

VARIABLES
    g_pc,             \* "idle" | "db_id" | "leader" | "node" | "addr" |
                      \* "containers" | "ret" | "raised"
    g_database_id,    \* local database_id
    g_leader_id,      \* local leader_id
    g_leader_node_id, \* local leader_node_id
    g_hostname,       \* local hostname
    g_ret,            \* the returned dict
    g_exc,            \* the exception raised, "none" for none
    g_truth           \* history: node of the leader the control database
                      \* recorded when it was queried, or why none was seen

gli_vars == <<g_pc, g_database_id, g_leader_id, g_leader_node_id, g_hostname,
              g_ret, g_exc, g_truth>>

NoInfo == [node_id |-> None, hostname |-> <<>>, container_id |-> <<>>]

GliInit ==
    /\ g_pc = "idle"
    /\ g_database_id = None
    /\ g_leader_id = None
    /\ g_leader_node_id = None
    /\ g_hostname = <<>>
    /\ g_ret = NoInfo
    /\ g_exc = "none"
    /\ g_truth = None

\* a command of get_leader_info exits non-zero: run_cmd's check_returncode /
\* _execute_command raise CalledProcessError, which get_leader_info lets through
GliCommandFails ==
    /\ g_pc \in {"db_id", "leader", "node", "addr", "containers"}
    /\ g_pc' = "raised"
    /\ g_exc' = "CalledProcessError"
    /\ g_truth' = CmdFailedSeen
    /\ UNCHANGED <<g_database_id, g_leader_id, g_leader_node_id, g_hostname, g_ret>>
    /\ UNCHANGED cstate

\* database_id = self.get_db_id()
GliGetDbId ==
    /\ g_pc = "db_id"
    /\ IF get_int_raises(DatabaseTable)
       THEN /\ g_pc' = "raised"
            /\ g_exc' = "AttributeError"
            /\ UNCHANGED g_database_id
       ELSE /\ g_pc' = "leader"
            /\ g_database_id' = get_int(DatabaseTable)
            /\ UNCHANGED g_exc
    /\ UNCHANGED <<g_leader_id, g_leader_node_id, g_hostname, g_ret, g_truth>>
    /\ UNCHANGED cstate

\* leader_id = get_int(read_controldb("select leader from replication_state ..."))
GliQueryLeader ==
    /\ g_pc = "leader"
    /\ LET leader_tb == LeaderTable(g_database_id, leader)
       IN  IF get_int_raises(leader_tb)
           THEN /\ g_pc' = "raised"
                /\ g_exc' = "AttributeError"
                /\ g_truth' = NoLeaderSeen
                /\ UNCHANGED g_leader_id
           ELSE /\ g_pc' = "node"
                /\ g_leader_id' = get_int(leader_tb)
                /\ g_truth' = IF leader = NoRow THEN NoLeaderSeen ELSE NodeOf[leader]
                /\ UNCHANGED g_exc
    /\ UNCHANGED <<g_database_id, g_leader_node_id, g_hostname, g_ret>>
    /\ UNCHANGED cstate

\* leader_node_id = get_int(read_controldb("select node_id from replica ..."))
GliQueryNode ==
    /\ g_pc = "node"
    /\ LET leader_node_tb == ReplicaNodeTable(g_leader_id)
       IN  IF get_int_raises(leader_node_tb)
           THEN /\ g_pc' = "raised"
                /\ g_exc' = "AttributeError"
                /\ g_truth' = NoLeaderSeen
                /\ UNCHANGED g_leader_node_id
           ELSE /\ g_pc' = "addr"
                /\ g_leader_node_id' = get_int(leader_node_tb)
                /\ UNCHANGED <<g_exc, g_truth>>
    /\ UNCHANGED <<g_database_id, g_leader_id, g_hostname, g_ret>>
    /\ UNCHANGED cstate

\* the network_addr query and the hostname extraction
GliQueryAddr ==
    /\ g_pc = "addr"
    /\ LET leader_host_tb == NodeAddrTable(g_leader_node_id)
       IN  IF HostnameRaises(leader_host_tb)
           THEN /\ g_pc' = "raised"
                /\ g_exc' = "IndexError"
                /\ g_truth' = CmdFailedSeen
                /\ UNCHANGED g_hostname
           ELSE /\ g_pc' = "containers"
                /\ g_hostname' = HostnameOf(leader_host_tb)
                /\ UNCHANGED <<g_exc, g_truth>>
    /\ UNCHANGED <<g_database_id, g_leader_id, g_leader_node_id, g_ret>>
    /\ UNCHANGED cstate

\* the container lookup and the return statement
GliFindContainer ==
    /\ g_pc = "containers"
    /\ g_ret' = [node_id |-> g_leader_node_id,
                 hostname |-> g_hostname,
                 container_id |->
                     FindContainerId(list_containers(ComposePsOutput), g_hostname)]
    /\ g_pc' = "ret"
    /\ cstate' = ComposeEffect(ListCommand, cstate)
    /\ UNCHANGED <<g_database_id, g_leader_id, g_leader_node_id, g_hostname,
                   g_exc, g_truth>>

GliStep ==
    \/ GliCommandFails
    \/ GliGetDbId
    \/ GliQueryLeader
    \/ GliQueryNode
    \/ GliQueryAddr
    \/ GliFindContainer

\* the frame of get_leader_info is left: its locals are gone
GliLeave ==
    /\ g_pc' = "idle"
    /\ g_database_id' = None
    /\ g_leader_id' = None
    /\ g_leader_node_id' = None
    /\ g_hostname' = <<>>
    /\ g_ret' = NoInfo
    /\ g_exc' = "none"
    /\ g_truth' = None

\* ------------------------------------------ state of the other operations
VARIABLES
    f_pc,        \* fail_leader / restore_leader: "idle" | "info" | "done"
    f_op,        \* "none" | "fail" | "restore"
    f_action,    \* the action argument
    f_cmds,      \* history: the container commands the call issued
    f_node,      \* history: leader_info['node_id'] of the call
    f_outcome,   \* "none" | "returned" | "raised"
    f_result,    \* the container id returned
    f_exc,       \* the exception that left the call
    last_failed, \* history: node id of the leader failed by the last successful
                 \* fail_leader since the last restore_leader, None for none
    d_last       \* history: the last _execute_command invocation

fail_vars == <<f_pc, f_op, f_action, f_cmds, f_node, f_outcome, f_result, f_exc>>

VARIABLES
    e_pc,        \* ensure_leader_health: "idle" | "sleep" | "start" | "write" |
                 \* "read" | "done"
    e_wait,      \* the wait_time argument
    e_steps,     \* history: "sleep", "write", "read" in the order they ended
    e_write,     \* history: invocations of call made by retry, and their success
    e_read,      \* history: what the read showed: "none" | "shown" | "empty" | "failed"
    e_outcome,   \* "none" | "returned" | "raised"
    e_exc,       \* the exception that left the call
    e_msg_id,    \* the id carried by the error message, None for none
    row          \* the counter row of the id under test: "absent" | "present"

ensure_vars == <<e_pc, e_wait, e_steps, e_write, e_read, e_outcome, e_exc, e_msg_id>>

VARIABLES
    p_pc,        \* parse_sql_result: "idle" | "input" | "done"
    p_table,     \* the table queried: [header |-> names, rows |-> rows of cells]
    p_text,      \* the text `spacetime sql` printed for it
    p_out        \* outcome of parse_sql_result(p_text)

parse_vars == <<p_pc, p_table, p_text, p_out>>

VARIABLES
    cycle,       \* history: the last successful step of the fail/restore cycle:
                 \* "none" | "kill" | "disconnect" | "start" | "connect"
    t_obs,       \* history: what get_all_replicas returned, first and latest call
    t_rows       \* history: ensure_leader_health returned normally for the id;
                 \* what the test's closing read found

loop_vars == <<cycle, t_obs, t_rows>>

VARIABLES
    rd_pc,       \* restart_docker: "idle" | "restart" | "list" | "round" | "sleep" |
                 \* "settle" | "done"
    rd_containers, \* the spacetimedb containers listed after the restart
    rd_attempts, \* the local `attempts`
    rd_alive,    \* containers_alive of the latest round, by position
    rd_sleeps,   \* history: the sleeps made, [poll |-> n, settle |-> n]
    rd_rounds,   \* history: rounds polled, and whether one found all running
    rd_outcome,  \* "none" | "returned" | "raised"
    rd_exc       \* the exception that left the call

restart_vars == <<rd_pc, rd_containers, rd_attempts, rd_alive, rd_sleeps,
                  rd_rounds, rd_outcome, rd_exc>>

VARIABLES
    process_count, \* max_workers of the thread pool
    futures,     \* per submitted suite: "pending" | "running" | "finished" |
                 \* "cancelled"
    results,     \* per finished suite: the TestResult of run_tests
    phase,       \* per suite: where its test is in its fail/restore cycle
    collected,   \* the futures as_completed has handed to main
    totals,      \* main's running sums
    m_pc,        \* main: "idle" | "collect" | "exited"
    exit_status, \* status main ends with, None before
    discover_suite \* args.discovered_tests: per member suite, the number of
                 \* class suites it holds

runner_vars == <<process_count, futures, results, phase, collected, totals,
                 m_pc, exit_status, discover_suite>>

VARIABLES
    th_state,    \* the thread of a ReturnThread: "none" | "started" | "ran" |
                 \* "ended"
    th_target,   \* history: what the target did
    th_exception, \* self._exception
    th_result,   \* self._result, unset until the target has returned
    c_out,       \* what the caller that built the ReturnThread got
    joins        \* per caller of join: where it is and what it got

thread_vars == <<th_state, th_target, th_exception, th_result, c_out, joins>>

VARIABLES
    pub_pc,      \* find-publish-list: "idle" | "input" | "done"
    pub_metadata, \* crate_metadata: per workspace crate, its dependencies
    pub_roots,   \* args.root
    pub_recursive, \* args.recursive
    pub_order    \* the crates printed, in order

publish_vars == <<pub_pc, pub_metadata, pub_roots, pub_recursive, pub_order>>

VARIABLES
    ts_pc,       \* a loop test: "idle" | "wait_first" | "ensure_first" | "fail" |
                 \* "wait_next" | "ensure_second" | "restore" | "verify" | "ended"
    ts_action,   \* "kill" in test_leader_election_in_loop, "disconnect" in
                 \* test_leader_c_disconnect_in_loop
    ts_iter,     \* the turn of the loop the test is in
    ts_cur,      \* cur_leader
    ts_container, \* container_id
    ts_failed,   \* history: the containers the test has failed and not restored
    ts_exc       \* the exception the test ended with, "none" when it passed

test_vars == <<ts_pc, ts_action, ts_iter, ts_cur, ts_container, ts_failed, ts_exc>>

side_vars == <<thread_vars, publish_vars, test_vars>>

aux_vars == <<loop_vars, restart_vars, runner_vars, side_vars>>

\* what a call of get_leader_info cannot reach
kept_vars == <<database_identity, fail_vars, last_failed, d_last,
               ensure_vars, row, parse_vars, aux_vars>>

ext_vars == <<cstate, kept_vars>>

\* ------------------------------------------ Cluster.wait_for_leader_change
\* `==` written for `!=`
LeaderChanged_Equal(current_leader, previous_leader_node) ==
    current_leader = previous_leader_node

\* a None previous leader is taken to mean that nothing can have changed
LeaderChanged_NoneGuard(current_leader, previous_leader_node) ==
    previous_leader_node # None /\ current_leader # previous_leader_node

\* `if current_leader != previous_leader_node` (replication.py:196)
LeaderChanged(current_leader, previous_leader_node) ==
    current_leader # previous_leader_node

\* range(max_attempts + 1): one poll too many
WaitHasAttempt_OffByOne(i, max_attempts) == i <= max_attempts

\* `for _ in range(max_attempts)`: another iteration after i completed ones
WaitHasAttempt(i, max_attempts) == i < max_attempts

VARIABLES
    w_pc,       \* "idle" | "loop" | "poll" | "sleep" | "done"
    w_prev,     \* previous_leader_node
    w_max,      \* max_attempts
    w_i,        \* completed iterations of the for loop
    w_seen,     \* history: what each poll observed
    w_sleeps,   \* number of time.sleep(delay) calls
    w_outcome,  \* "none" | "returned" | "raised"
    w_result,   \* the value returned
    w_exc       \* the exception that left the call

wait_vars == <<w_pc, w_prev, w_max, w_i, w_seen, w_sleeps, w_outcome,
               w_result, w_exc>>

WaitInit ==
    /\ w_pc = "idle"
    /\ w_prev = None
    /\ w_max = 0
    /\ w_i = 0
    /\ w_seen = <<>>
    /\ w_sleeps = 0
    /\ w_outcome = "none"
    /\ w_result = None
    /\ w_exc = "none"

\* wait_for_leader_change(previous_leader_node, max_attempts, delay) is entered
WaitCall(prev, n) ==
    /\ w_pc = "idle"
    /\ r_pc = "idle"
    /\ w_pc' = "loop"
    /\ w_prev' = prev
    /\ w_max' = n
    /\ UNCHANGED <<w_i, w_seen, w_sleeps, w_outcome, w_result, w_exc>>
    /\ UNCHANGED <<retry_vars, gli_vars, leader, ext_vars>>

\* the head of the for loop: poll again, or fall out and `return None`
WaitLoop ==
    /\ w_pc = "loop"
    /\ IF WaitHasAttempt(w_i, w_max)
       THEN /\ w_pc' = "poll"
            /\ g_pc' = "db_id"
            /\ UNCHANGED <<w_outcome, w_result>>
       ELSE /\ w_pc' = "done"
            /\ w_outcome' = "returned"
            /\ w_result' = None
            /\ UNCHANGED g_pc
    /\ UNCHANGED <<w_prev, w_max, w_i, w_seen, w_sleeps, w_exc>>
    /\ UNCHANGED <<g_database_id, g_leader_id, g_leader_node_id, g_hostname,
                   g_ret, g_exc, g_truth>>
    /\ UNCHANGED <<retry_vars, leader, ext_vars>>

\* get_leader_info runs on behalf of the poll
WaitPollStep ==
    /\ w_pc = "poll"
    /\ GliStep
    /\ UNCHANGED <<wait_vars, retry_vars, leader, kept_vars>>

\* the sleep is taken before the comparison instead of after it
WaitCompare_SleepFirst ==
    /\ w_pc = "poll"
    /\ g_pc = "ret"
    /\ w_seen' = Append(w_seen, g_truth)
    /\ w_sleeps' = w_sleeps + 1
    /\ IF LeaderChanged(g_ret.node_id, w_prev)
       THEN /\ w_pc' = "done"
            /\ w_outcome' = "returned"
            /\ w_result' = g_ret.node_id
       ELSE /\ w_pc' = "sleep"
            /\ UNCHANGED <<w_outcome, w_result>>
    /\ GliLeave
    /\ UNCHANGED <<w_prev, w_max, w_i, w_exc>>
    /\ UNCHANGED <<retry_vars, leader, ext_vars>>

\* get_leader_info returned: compare, then return or sleep
\* (replication.py:195-198)
WaitCompare ==
    /\ w_pc = "poll"
    /\ g_pc = "ret"
    /\ w_seen' = Append(w_seen, g_truth)
    /\ IF LeaderChanged(g_ret.node_id, w_prev)
       THEN /\ w_pc' = "done"
            /\ w_outcome' = "returned"
            /\ w_result' = g_ret.node_id
            /\ UNCHANGED w_sleeps
       ELSE /\ w_pc' = "sleep"
            /\ w_sleeps' = w_sleeps + 1
            /\ UNCHANGED <<w_outcome, w_result>>
    /\ GliLeave
    /\ UNCHANGED <<w_prev, w_max, w_i, w_exc>>
    /\ UNCHANGED <<retry_vars, leader, ext_vars>>

\* get_leader_info raised: nothing in wait_for_leader_change catches it
WaitPollRaised ==
    /\ w_pc = "poll"
    /\ g_pc = "raised"
    /\ w_seen' = Append(w_seen, g_truth)
    /\ w_pc' = "done"
    /\ w_outcome' = "raised"
    /\ w_exc' = g_exc
    /\ GliLeave
    /\ UNCHANGED <<w_prev, w_max, w_i, w_sleeps, w_result>>
    /\ UNCHANGED <<retry_vars, leader, ext_vars>>

\* time.sleep(delay) returns; the iteration is complete
WaitSleepDone ==
    /\ w_pc = "sleep"
    /\ w_i' = w_i + 1
    /\ w_pc' = "loop"
    /\ UNCHANGED <<w_prev, w_max, w_seen, w_sleeps, w_outcome, w_result, w_exc>>
    /\ UNCHANGED <<retry_vars, gli_vars, leader, ext_vars>>

\* wait_for_leader_change has left; the harness is ready for the next call
WaitReturn ==
    /\ w_pc = "done"
    /\ w_pc' = "idle"
    /\ w_prev' = None
    /\ w_max' = 0
    /\ w_i' = 0
    /\ w_seen' = <<>>
    /\ w_sleeps' = 0
    /\ w_outcome' = "none"
    /\ w_result' = None
    /\ w_exc' = "none"
    /\ UNCHANGED <<retry_vars, gli_vars, leader, ext_vars>>

WaitStep ==
    \/ WaitLoop
    \/ WaitPollStep
    \/ WaitCompare
    \/ WaitPollRaised
    \/ WaitSleepDone
    \/ WaitReturn

\* ------------------------------------------ DockerManager._execute_command
\* the exception classes involved and their base classes
ExcParent ==
    ("CalledProcessError" :> "SubprocessError") @@ ("SubprocessError" :> "Exception")
    @@ ("RuntimeError" :> "Exception") @@ ("ValueError" :> "Exception")
    @@ ("NameError" :> "Exception") @@ ("AttributeError" :> "Exception")
    @@ ("IndexError" :> "LookupError") @@ ("LookupError" :> "Exception")
    @@ ("Exception" :> "BaseException")

RECURSIVE IsInstance(_, _)
\* isinstance(exc, cls)
IsInstance(exc, cls) ==
    \/ exc = cls
    \/ (exc \in DOMAIN ExcParent /\ IsInstance(ExcParent[exc], cls))

ContainerIndex(cid) == CHOOSE i \in 1..Len(Containers) : Containers[i].id = cid

\* what the docker daemon does with a container command: exit code, output
\* and the new container states.  kill needs a running container, network
\* disconnect an attached one, network connect a detached one
DockerEffect(cmd, cid, daemon_ok) ==
    LET i == ContainerIndex(cid)
        st == cstate[i]
        ok(state) == [exit |-> 0, stdout |-> cid \o <<"\n">>, stderr |-> "",
                      state |-> state]
        err(msg) == [exit |-> 1, stdout |-> <<>>, stderr |-> msg, state |-> cstate]
    IN  IF ~daemon_ok THEN err("daemon error")
        ELSE CASE cmd = "kill" ->
                    IF st.running
                    THEN ok([cstate EXCEPT ![i].running = FALSE])
                    ELSE err("not running")
               [] cmd = "start" ->
                    ok([cstate EXCEPT ![i].running = TRUE])
               [] cmd = "disconnect" ->
                    IF st.connected
                    THEN ok([cstate EXCEPT ![i].connected = FALSE])
                    ELSE err("not connected")
               [] cmd = "connect" ->
                    IF ~st.connected
                    THEN ok([cstate EXCEPT ![i].connected = TRUE])
                    ELSE err("already connected")

\* subprocess.run without check=True: a non-zero exit goes unnoticed
ExecuteCommand_NoCheck(proc) ==
    [outcome |-> "returned", exc |-> "none", value |-> Strip(proc.stdout),
     printed |-> <<>>]

\* _execute_command: stripped stdout on exit 0; otherwise CalledProcessError
\* is caught, "Command failed: <stderr>" printed and the exception re-raised
ExecuteCommand(proc) ==
    IF proc.exit = 0
    THEN [outcome |-> "returned", exc |-> "none", value |-> Strip(proc.stdout),
          printed |-> <<>>]
    ELSE [outcome |-> "raised", exc |-> "CalledProcessError", value |-> <<>>,
          printed |-> <<"Command failed: ", proc.stderr>>]

NoCommand ==
    [cmd |-> "none", target |-> <<>>, exit |-> 0, stdout |-> <<>>, stderr |-> "",
     outcome |-> "none", exc |-> "none", value |-> <<>>, printed |-> <<>>]

\* the command is wrapped in retry: issued again after a failure, and the
\* failure swallowed
ContainerCommand_Retried(cmd, cid, daemon_ok) ==
    LET proc == DockerEffect(cmd, cid, daemon_ok)
        res == ExecuteCommand(proc)
        one == [cmd |-> cmd, target |-> cid, exit |-> proc.exit]
    IN  [cmds |-> IF proc.exit = 0 THEN <<one>> ELSE <<one, one>>,
         outcome |-> "returned",
         exc |-> "none",
         state |-> proc.state,
         last |-> [cmd |-> cmd, target |-> cid, exit |-> proc.exit,
                   stdout |-> proc.stdout, stderr |-> proc.stderr,
                   outcome |-> res.outcome, exc |-> res.exc,
                   value |-> res.value, printed |-> res.printed]]

\* kill_container / start_container / disconnect_container /
\* connect_container: one _execute_command call, whose exception passes through
ContainerCommand(cmd, cid, daemon_ok) ==
    LET proc == DockerEffect(cmd, cid, daemon_ok)
        res == ExecuteCommand(proc)
    IN  [cmds |-> <<[cmd |-> cmd, target |-> cid, exit |-> proc.exit]>>,
         outcome |-> res.outcome,
         exc |-> res.exc,
         state |-> proc.state,
         last |-> [cmd |-> cmd, target |-> cid, exit |-> proc.exit,
                   stdout |-> proc.stdout, stderr |-> proc.stderr,
                   outcome |-> res.outcome, exc |-> res.exc,
                   value |-> res.value, printed |-> res.printed]]

\* ------------------------------- Cluster.fail_leader, Cluster.restore_leader
FailActions == {"kill", "disconnect", "stop"}

RestoreActions == {"start", "connect", "restart"}

\* the last branch is a plain else: an unknown action disconnects
FailCommandOf_Default(action) ==
    IF action = "kill" THEN "kill" ELSE "disconnect"

\* the docker command of an action, "none" for an unknown action
FailCommandOf(action) ==
    IF action = "kill" THEN "kill"
    ELSE IF action = "disconnect" THEN "disconnect"
    ELSE "none"

RestoreCommandOf(action) ==
    IF action = "start" THEN "start"
    ELSE IF action = "connect" THEN "connect"
    ELSE "none"

FailInit ==
    /\ f_pc = "idle"
    /\ f_op = "none"
    /\ f_action = "none"
    /\ f_cmds = <<>>
    /\ f_node = None
    /\ f_outcome = "none"
    /\ f_result = <<>>
    /\ f_exc = "none"

OthersIdle ==
    /\ r_pc = "idle"
    /\ w_pc = "idle"
    /\ f_pc = "idle"
    /\ e_pc = "idle"
    /\ g_pc = "idle"

\* the containers that are killed or detached
DownContainers == {i \in 1..Len(Containers) : cstate[i] # ContainerUp}

\* fail_leader(action) is entered and calls get_leader_info; the tests keep a
\* quorum alive, so at most MaxDown containers are failed at a time
FailEnter(action) ==
    /\ OthersIdle
    /\ Cardinality(DownContainers) < MaxDown
    /\ f_pc' = "info"
    /\ f_op' = "fail"
    /\ f_action' = action
    /\ g_pc' = "db_id"
    /\ UNCHANGED <<f_cmds, f_node, f_outcome, f_result, f_exc>>
    /\ UNCHANGED <<g_database_id, g_leader_id, g_leader_node_id, g_hostname,
                   g_ret, g_exc, g_truth>>
    /\ UNCHANGED <<retry_vars, wait_vars, leader, cstate, database_identity,
                   last_failed, d_last, ensure_vars, row, parse_vars, aux_vars>>

\* get_leader_info runs on behalf of fail_leader
FailInfoStep ==
    /\ f_pc = "info"
    /\ GliStep
    /\ UNCHANGED <<retry_vars, wait_vars, leader, kept_vars>>

\* get_leader_info raised: fail_leader lets the exception through
FailInfoRaised ==
    /\ f_pc = "info"
    /\ g_pc = "raised"
    /\ f_pc' = "done"
    /\ f_outcome' = "raised"
    /\ f_exc' = g_exc
    /\ GliLeave
    /\ UNCHANGED <<f_op, f_action, f_cmds, f_node, f_result>>
    /\ UNCHANGED <<retry_vars, wait_vars, leader, cstate, database_identity,
                   last_failed, d_last, ensure_vars, row, parse_vars, aux_vars>>

\* get_leader_info returned: the container check, the action and the return
\* (replication.py:215-228)
FailAct ==
    /\ f_pc = "info"
    /\ g_pc = "ret"
    /\ f_pc' = "done"
    /\ f_node' = g_ret.node_id
    /\ GliLeave
    /\ IF g_ret.container_id = <<>>
       THEN /\ f_outcome' = "raised"
            /\ f_exc' = "ValueError"
            /\ UNCHANGED <<f_cmds, f_result, cstate, d_last, last_failed>>
       ELSE IF FailCommandOf(f_action) = "none"
       THEN /\ f_outcome' = "raised"
            /\ f_exc' = "ValueError"
            /\ UNCHANGED <<f_cmds, f_result, cstate, d_last, last_failed>>
       ELSE \E daemon_ok \in BOOLEAN :
              LET c == ContainerCommand(FailCommandOf(f_action),
                                        g_ret.container_id, daemon_ok)
              IN  /\ f_cmds' = f_cmds \o c.cmds
                  /\ cstate' = c.state
                  /\ d_last' = c.last
                  /\ f_outcome' = c.outcome
                  /\ f_exc' = c.exc
                  /\ IF c.outcome = "returned"
                     THEN /\ f_result' = g_ret.container_id
                          /\ last_failed' = g_ret.node_id
                     ELSE UNCHANGED <<f_result, last_failed>>
    /\ cycle' = IF f_outcome' = "returned" THEN FailCommandOf(f_action) ELSE cycle
    /\ t_rows' = IF f_outcome' = "returned" /\ t_rows.ensured
                 THEN [t_rows EXCEPT !.disrupted = TRUE] ELSE t_rows
    /\ UNCHANGED <<f_op, f_action>>
    /\ UNCHANGED <<retry_vars, wait_vars, leader, database_identity,
                   ensure_vars, row, parse_vars, t_obs, restart_vars, runner_vars, side_vars>>

\* the restoring action that the tests pair with a failing one: 'start' after
\* fail_leader('kill'), 'connect' after fail_leader('disconnect')
Restores(action, failed_by) ==
    \/ (failed_by = "kill" /\ action = "start")
    \/ (failed_by = "disconnect" /\ action = "connect")

\* restore_leader(container_id, action) (replication.py:230-237)
RestoreCall(container_id, action) ==
    /\ OthersIdle
    /\ f_pc' = "done"
    /\ f_op' = "restore"
    /\ f_action' = action
    /\ last_failed' = None
    /\ IF RestoreCommandOf(action) = "none"
       THEN /\ f_outcome' = "raised"
            /\ f_exc' = "ValueError"
            /\ UNCHANGED <<f_cmds, cstate, d_last>>
       ELSE \E daemon_ok \in BOOLEAN :
              LET c == ContainerCommand(RestoreCommandOf(action), container_id,
                                        daemon_ok)
              IN  /\ f_cmds' = f_cmds \o c.cmds
                  /\ cstate' = c.state
                  /\ d_last' = c.last
                  /\ f_outcome' = c.outcome
                  /\ f_exc' = c.exc
    /\ cycle' = IF f_outcome' = "returned" /\ Restores(action, cycle)
                THEN action ELSE cycle
    /\ UNCHANGED <<f_node, f_result>>
    /\ UNCHANGED <<retry_vars, gli_vars, wait_vars, leader, database_identity,
                   ensure_vars, row, parse_vars, t_obs, t_rows, restart_vars,
                   runner_vars, side_vars>>

\* the call has left its frame; the harness is ready for the next call
FailReturn ==
    /\ f_pc = "done"
    /\ f_pc' = "idle"
    /\ f_op' = "none"
    /\ f_action' = "none"
    /\ f_cmds' = <<>>
    /\ f_node' = None
    /\ f_outcome' = "none"
    /\ f_result' = <<>>
    /\ f_exc' = "none"
    /\ d_last' = NoCommand
    /\ UNCHANGED <<retry_vars, gli_vars, wait_vars, leader, cstate,
                   database_identity, last_failed, ensure_vars, row, parse_vars, aux_vars>>

\* ------------------------------------------------ Smoketest.publish_module
HexChars == <<"a", "b", "c", "d", "e", "f", "A", "B", "C", "D", "E", "F">>

IsHex(c) == IsDigit(c) \/ \E i \in 1..Len(HexChars) : HexChars[i] = c

RECURSIVE TakeHex(_)
TakeHex(s) ==
    IF s # <<>> /\ IsHex(Head(s)) THEN <<Head(s)>> \o TakeHex(Tail(s)) ELSE <<>>

S_identity == <<"i", "d", "e", "n", "t", "i", "t", "y", ":", " ">>

RECURSIVE SearchIdentity(_)
\* re.search(r"identity: ([0-9a-fA-F]+)", publish_output)[1]
SearchIdentity(s) ==
    IF s = <<>> THEN <<>>
    ELSE IF IsPrefix(S_identity, s)
            /\ TakeHex(SubSeq(s, Len(S_identity) + 1, Len(s))) # <<>>
    THEN TakeHex(SubSeq(s, Len(S_identity) + 1, Len(s)))
    ELSE SearchIdentity(Tail(s))

\* stdout of `spacetime publish` for a database with the given identity
PublishOutput(identity) ==
    <<"C", "r", "e", "a", "t", "e", "d", " ">> \o S_identity \o identity \o <<"\n">>

\* publish_module: the identity found in the publish output is assigned to
\* self.database_identity
Publish(identity) ==
    /\ OthersIdle
    /\ database_identity' = SearchIdentity(PublishOutput(identity))
    /\ UNCHANGED <<retry_vars, gli_vars, wait_vars, leader, cstate, fail_vars,
                   last_failed, d_last, ensure_vars, row, parse_vars, aux_vars>>

\* --------------------------------------------- Cluster.ensure_leader_health
\* the id the tests pass (row_ids start at 101)
EnsureId == 101

\* retry's default max_retries, which ensure_leader_health relies on
DefaultMaxRetries == 3

WaitTimes == {0, 2}

S_counter_id == <<"i", "d">>

\* stdout of SELECT id FROM counter where id=<id>: the row is there once the
\* scheduled reducer has inserted it
CounterTable(id) ==
    RenderTable(S_counter_id, IF row = "present" THEN <<IntToStr(id)>> ELSE <<>>)

\* the test of the read turned round
ReadMisses_Inverted(add_table, id) == Contains(add_table, IntToStr(id))

\* `str(id) not in add_table`
ReadMisses(add_table, id) == ~Contains(add_table, IntToStr(id))

\* raise ValueError(f"Could not find {rnd} in counter table"): rnd is not
\* defined, so building the message raises NameError and no ValueError exists
MissingIdError == [exc |-> "NameError", id |-> None]

NoWrite == [attempts |-> 0, ok |-> FALSE]

EnsureInit ==
    /\ e_pc = "idle"
    /\ e_wait = 0
    /\ e_steps = <<>>
    /\ e_write = NoWrite
    /\ e_read = "none"
    /\ e_outcome = "none"
    /\ e_exc = "none"
    /\ e_msg_id = None
    /\ row = "absent"

\* ensure_leader_health(id, wait_time) is entered
EnsureEnter(wait_time) ==
    /\ OthersIdle
    /\ e_wait' = wait_time
    /\ e_pc' = IF wait_time # 0 THEN "sleep" ELSE "start"
    /\ UNCHANGED <<e_steps, e_write, e_read, e_outcome, e_exc, e_msg_id, row>>
    /\ UNCHANGED <<retry_vars, gli_vars, wait_vars, leader, cstate,
                   database_identity, fail_vars, last_failed, d_last, parse_vars, aux_vars>>

\* time.sleep(wait_time) returns
EnsureSleepDone ==
    /\ e_pc = "sleep"
    /\ e_pc' = "start"
    /\ e_steps' = Append(e_steps, "sleep")
    /\ UNCHANGED <<e_wait, e_write, e_read, e_outcome, e_exc, e_msg_id, row>>
    /\ UNCHANGED <<retry_vars, gli_vars, wait_vars, leader, cstate,
                   database_identity, fail_vars, last_failed, d_last, parse_vars, aux_vars>>

\* retry(lambda: self.test.call("start", id, 1)) is entered
EnsureWriteStart ==
    /\ e_pc = "start"
    /\ e_pc' = "write"
    /\ RetryCall(DefaultMaxRetries)
    /\ UNCHANGED <<e_wait, e_steps, e_write, e_read, e_outcome, e_exc, e_msg_id, row>>
    /\ UNCHANGED <<gli_vars, wait_vars, leader, cstate,
                   database_identity, fail_vars, last_failed, d_last, parse_vars, aux_vars>>

\* retry runs; Smoketest.call returns None or raises
EnsureWriteStep ==
    /\ e_pc = "write"
    /\ \/ RetryAttemptReturns("None")
       \/ RetryAttemptRaises
       \/ RetrySleepDone
    /\ UNCHANGED <<gli_vars, wait_vars, leader, ext_vars>>

\* retry has returned: None after a successful call, False after giving up;
\* its result is dropped.  An exception leaving retry would leave the call
EnsureWriteDone ==
    /\ e_pc = "write"
    /\ r_pc = "done"
    /\ e_steps' = Append(e_steps, "write")
    /\ e_write' = [attempts |-> Len(r_calls),
                   ok |-> r_outcome = "returned" /\ r_result = "None"]
    /\ IF r_outcome = "raised"
       THEN /\ e_pc' = "done"
            /\ e_outcome' = "raised"
            /\ e_exc' = "Exception"
       ELSE /\ e_pc' = "read"
            /\ UNCHANGED <<e_outcome, e_exc>>
    /\ RetryReturn
    /\ UNCHANGED <<e_wait, e_read, e_msg_id, row>>
    /\ UNCHANGED <<gli_vars, wait_vars, leader, cstate,
                   database_identity, fail_vars, last_failed, d_last, parse_vars, aux_vars>>

\* the scheduled reducer that `start` set up inserts the counter row
ScheduledReducerRuns ==
    /\ e_pc = "read"
    /\ e_write.ok
    /\ row = "absent"
    /\ row' = "present"
    /\ UNCHANGED <<retry_vars, gli_vars, wait_vars, leader, cstate,
                   database_identity, fail_vars, last_failed, d_last,
                   ensure_vars, parse_vars, aux_vars>>

\* self.test.sql(...) exits non-zero: CalledProcessError leaves the call
EnsureReadFails ==
    /\ e_pc = "read"
    /\ e_pc' = "done"
    /\ e_steps' = Append(e_steps, "read")
    /\ e_read' = "failed"
    /\ e_outcome' = "raised"
    /\ e_exc' = "CalledProcessError"
    /\ UNCHANGED <<e_wait, e_write, e_msg_id, row>>
    /\ UNCHANGED <<retry_vars, gli_vars, wait_vars, leader, cstate,
                   database_identity, fail_vars, last_failed, d_last, parse_vars, aux_vars>>

\* the one read, made directly, and the check of its text
EnsureReadAndCheck ==
    /\ e_pc = "read"
    /\ e_pc' = "done"
    /\ e_steps' = Append(e_steps, "read")
    /\ LET add_table == CounterTable(EnsureId)
       IN  IF ReadMisses(add_table, EnsureId)
           THEN /\ e_read' = "empty"
                /\ e_outcome' = "raised"
                /\ e_exc' = MissingIdError.exc
                /\ e_msg_id' = MissingIdError.id
           ELSE /\ e_read' = "shown"
                /\ e_outcome' = "returned"
                /\ UNCHANGED <<e_exc, e_msg_id>>
    /\ t_rows' = IF e_outcome' = "returned"
                 THEN [t_rows EXCEPT !.ensured = TRUE] ELSE t_rows
    /\ UNCHANGED <<e_wait, e_write, row>>
    /\ UNCHANGED <<retry_vars, gli_vars, wait_vars, leader, cstate,
                   database_identity, fail_vars, last_failed, d_last, parse_vars,
                   cycle, t_obs, restart_vars, runner_vars, side_vars>>

\* the call has left its frame
EnsureReturn ==
    /\ e_pc = "done"
    /\ e_pc' = "idle"
    /\ e_wait' = 0
    /\ e_steps' = <<>>
    /\ e_write' = NoWrite
    /\ e_read' = "none"
    /\ e_outcome' = "none"
    /\ e_exc' = "none"
    /\ e_msg_id' = None
    /\ UNCHANGED row
    /\ UNCHANGED <<retry_vars, gli_vars, wait_vars, leader, cstate,
                   database_identity, fail_vars, last_failed, d_last, parse_vars, aux_vars>>

EnsureStep ==
    \/ EnsureSleepDone
    \/ EnsureWriteStart
    \/ EnsureWriteStep
    \/ EnsureWriteDone
    \/ EnsureReadFails
    \/ EnsureReadAndCheck
    \/ EnsureReturn

\* ------------------------------------------------------- parse_sql_result
ColumnNames == {<<"i", "d">>, <<"n", "a", "m", "e">>, <<"x">>}

\* a cell with a space inside, and the empty cell
CellValues == {<<"a", " ", "b">>, <<>>}

\* column names of a result are distinct
Headers(n) ==
    {h \in [1..n -> ColumnNames] : \A i, j \in 1..n : h[i] = h[j] => i = j}

\* the results of at most max_cols columns and max_rows rows
SqlTables(max_cols, max_rows) ==
    UNION {{[header |-> h, rows |-> r] :
                h \in Headers(n),
                r \in UNION {[1..m -> [1..n -> CellValues]] : m \in 0..max_rows}} :
           n \in 1..max_cols}

NatMax(S) == CHOOSE m \in S : \A k \in S : k <= m

\* the printer makes each column as wide as its longest cell
ColWidth(t, k) ==
    NatMax({Len(t.header[k])} \cup {Len(t.rows[i][k]) : i \in 1..Len(t.rows)})

PadTo(cell, w) == <<" ">> \o cell \o [i \in 1..(w - Len(cell)) |-> " "] \o <<" ">>

RECURSIVE JoinWith(_, _)
JoinWith(parts, sep) ==
    IF parts = <<>> THEN <<>>
    ELSE IF Len(parts) = 1 THEN parts[1]
    ELSE parts[1] \o <<sep>> \o JoinWith(Tail(parts), sep)

\* stdout of `spacetime sql` for a table: cells joined by "|", the separator
\* line of dashes joined by "+"
RenderSqlTable(t) ==
    LET n == Len(t.header)
        line(cells) == JoinWith([k \in 1..n |-> PadTo(cells[k], ColWidth(t, k))], "|")
        rule == JoinWith([k \in 1..n |-> [i \in 1..(ColWidth(t, k) + 2) |-> "-"]], "+")
    IN  JoinLines(<<line(t.header), rule>>
                  \o [i \in 1..Len(t.rows) |-> line(t.rows[i])])

StripAll(parts) == [i \in 1..Len(parts) |-> Strip(parts[i])]

\* dict(zip(headers, cols)): pairs up to the shorter length, a later pair
\* replaces an earlier one with the same key
DictZip(headers, cols) ==
    LET n == IF Len(headers) <= Len(cols) THEN Len(headers) ELSE Len(cols)
    IN  [key \in {headers[i] : i \in 1..n} |->
            cols[NatMax({i \in 1..n : headers[i] = key})]]

\* `lines[1:]`: the separator line is taken for a data row
DataLines_FromSeparator(lines) == SubSeq(lines, 2, Len(lines))

\* `lines[2:]`
DataLines(lines) == SubSeq(lines, 3, Len(lines))

\* parse_sql_result(res); lines[0] raises IndexError on a text without lines
parse_sql_result(res) ==
    LET lines == splitlines(res)
    IN  IF lines = <<>>
        THEN [outcome |-> "raised", exc |-> "IndexError", value |-> <<>>]
        ELSE LET headers ==
                     StripAll(IF Contains(lines[1], <<"|">>)
                              THEN Split(lines[1], "|")
                              ELSE <<lines[1]>>)
                 data == DataLines(lines)
             IN  [outcome |-> "returned",
                  exc |-> "none",
                  value |-> [i \in 1..Len(data) |->
                               DictZip(headers, StripAll(Split(data[i], "|")))]]

NoParse == [outcome |-> "none", exc |-> "none", value |-> <<>>]

NoTable == [header |-> <<>>, rows |-> <<>>]

ParseIdle ==
    /\ p_pc = "idle"
    /\ p_table = NoTable
    /\ p_text = <<>>
    /\ p_out = NoParse

\* the text of a query result is handed to parse_sql_result
ParseCall ==
    /\ p_pc = "input"
    /\ p_pc' = "done"
    /\ p_out' = parse_sql_result(p_text)
    /\ UNCHANGED <<p_table, p_text>>
    /\ UNCHANGED <<retry_vars, gli_vars, wait_vars, leader, cstate,
                   database_identity, fail_vars, last_failed, d_last,
                   ensure_vars, row, aux_vars>>

\* no replica count has been taken
NoCounts == [before |-> None, down |-> None, after |-> None]

LoopIdle ==
    /\ cycle = "none"
    /\ t_obs = NoCounts
    /\ t_rows = [ensured |-> FALSE, disrupted |-> FALSE, verified |-> "none"]

NoSleeps == [poll |-> 0, settle |-> 0]

NoRounds == [polled |-> 0, all_up |-> FALSE, ports |-> <<>>,
             ping |-> [port \in {1, 2} |-> 0]]

RestartIdle ==
    /\ rd_pc = "idle"
    /\ rd_containers = <<>>
    /\ rd_attempts = 0
    /\ rd_alive = <<>>
    /\ rd_sleeps = NoSleeps
    /\ rd_rounds = NoRounds
    /\ rd_outcome = "none"
    /\ rd_exc = "none"

NoTotals == [tests_run |-> 0, errors |-> 0, failures |-> 0,
             unexpected_successes |-> 0]

RunnerIdle ==
    /\ process_count = 0
    /\ futures = <<>>
    /\ results = <<>>
    /\ phase = <<>>
    /\ collected = {}
    /\ totals = NoTotals
    /\ m_pc = "idle"
    /\ exit_status = None
    /\ discover_suite = <<>>

\* the most callers of one thread's join
MaxJoins == 2

NoException == "none"

\* what a call has given its caller so far: nothing
NoOutcome == [kind |-> "none", value |-> None, exc |-> NoException]

Unset == [set |-> FALSE, value |-> None]

IdleJoin == [pc |-> "idle", timeout |-> FALSE, out |-> NoOutcome]

ThreadIdle ==
    /\ th_state = "none"
    /\ th_target = NoOutcome
    /\ th_exception = NoException
    /\ th_result = Unset
    /\ c_out = NoOutcome
    /\ joins = [j \in 1..MaxJoins |-> IdleJoin]

PublishIdle ==
    /\ pub_pc = "idle"
    /\ pub_metadata = <<>>
    /\ pub_roots = <<>>
    /\ pub_recursive = FALSE
    /\ pub_order = <<>>

TestIdle ==
    /\ ts_pc = "idle"
    /\ ts_action = "none"
    /\ ts_iter = 0
    /\ ts_cur = None
    /\ ts_container = <<>>
    /\ ts_failed = {}
    /\ ts_exc = "none"

SideIdle ==
    /\ ThreadIdle
    /\ PublishIdle
    /\ TestIdle

AuxIdle ==
    /\ LoopIdle
    /\ RestartIdle
    /\ RunnerIdle
    /\ SideIdle

\* ------------------------------------------------ the loop tests' reads
\* select id, node_id from replica where database_id=<database_id>: fail_leader
\* and restore_leader stop and start containers, the control database keeps
\* its replica rows
ReplicaTable(database_id) ==
    LET ids == IF database_id \in DatabaseIds THEN SortedSeq(ReplicaIds) ELSE <<>>
    IN  RenderSqlTable([header |-> <<S_id, S_node_id>>,
                        rows |-> [i \in 1..Len(ids) |->
                                     <<IntToStr(ids[i]), IntToStr(NodeOf[ids[i]])>>]])

\* int(s): surrounding blanks are allowed, anything but digits raises
IntRaises(s) ==
    \/ Strip(s) = <<>>
    \/ \E i \in 1..Len(Strip(s)) : ~IsDigit(Strip(s)[i])

\* `[3:]` written for `[2:]`
ReplicaLines_SkipFirst(replica_tb) ==
    LET lines == splitlines(replica_tb) IN SubSeq(lines, 4, Len(lines))

\* replica_tb.splitlines()[2:]
ReplicaLines(replica_tb) ==
    LET lines == splitlines(replica_tb) IN SubSeq(lines, 3, Len(lines))

\* the loop of get_all_replicas: `replica_id, node_id = line.split('|')` and the
\* two int() raise ValueError on a line of another shape
get_all_replicas(replica_tb) ==
    LET lines == ReplicaLines(replica_tb)
        bad(line) == \/ Len(Split(line, "|")) # 2
                     \/ \E k \in 1..2 : IntRaises(Split(line, "|")[k])
    IN  IF \E i \in 1..Len(lines) : bad(lines[i])
        THEN [outcome |-> "raised", exc |-> "ValueError", value |-> <<>>]
        ELSE [outcome |-> "returned",
              exc |-> "none",
              value |-> [i \in 1..Len(lines) |->
                           [replica_id |-> ParseInt(Strip(Split(lines[i], "|")[1])),
                            node_id |-> ParseInt(Strip(Split(lines[i], "|")[2]))]]]

\* where a replica count belongs: taken before a leader was failed, while
\* one is down, or after the restore that pairs with the failure
CountSlot(at) ==
    IF at = "none" THEN "before"
    ELSE IF at \in {"kill", "disconnect"} THEN "down"
    ELSE "after"

\* a test calls cluster.get_all_replicas() between two harness calls and keeps
\* the count; a failed command or a raise leaves it without a count
GetAllReplicas ==
    /\ OthersIdle
    /\ \E daemon_ok \in BOOLEAN :
          IF ~daemon_ok \/ get_int_raises(DatabaseTable)
          THEN UNCHANGED t_obs
          ELSE LET replicas == get_all_replicas(ReplicaTable(get_int(DatabaseTable)))
               IN  IF replicas.outcome = "raised"
                   THEN UNCHANGED t_obs
                   ELSE t_obs' = [t_obs EXCEPT ![CountSlot(cycle)] = Len(replicas.value)]
    /\ UNCHANGED <<retry_vars, gli_vars, wait_vars, leader, cstate,
                   database_identity, fail_vars, last_failed, d_last, ensure_vars,
                   row, parse_vars, cycle, t_rows, restart_vars, runner_vars, side_vars>>

\* the closing read of the loop tests: SELECT * FROM counter WHERE id = <row_id>
\* and assertIn(f"{row_id}", table); a test gets there only when each of its
\* ensure_leader_health calls has returned
VerifyRow ==
    /\ OthersIdle
    /\ t_rows.ensured
    /\ \E daemon_ok \in BOOLEAN :
          t_rows' = [t_rows EXCEPT !.verified =
                        IF ~daemon_ok THEN @
                        ELSE IF Contains(CounterTable(EnsureId), IntToStr(EnsureId))
                        THEN "found" ELSE "missing"]
    /\ UNCHANGED <<retry_vars, gli_vars, wait_vars, leader, cstate,
                   database_identity, fail_vars, last_failed, d_last, ensure_vars,
                   row, parse_vars, cycle, t_obs, restart_vars, runner_vars, side_vars>>

\* ---------------------------------------------------------- restart_docker
\* `while attempts < 10`
RestartAttempts == 10

RestartHasAttempt(attempts) == attempts < RestartAttempts

\* what list_spacetimedb_containers can return: the first k containers
RestartLists == {SubSeq(Containers, 1, k) : k \in 0..MaxListed}

\* the host ports of a container in the order the set yields them, none when
\* the container is not running
PortOrders == {<<>>, <<1, 2>>, <<2, 1>>}

\* what a ping of a port gives: the HTTP status, 0 when urlopen raises
PingResults == {200, 503, 0}

\* the error of the ping leaves is_running
OnPingError_Raise(rest) == [outcome |-> "raised", value |-> FALSE]

\* `except Exception as e: ... continue`: the remaining ports decide
OnPingError(rest) == rest

RECURSIVE is_running(_, _)
\* DockerContainer.is_running: the loop over the host ports, in the order the
\* set yields them; True at the first answer with status 200, False after
\* the last port
is_running(host_ports, ping) ==
    IF host_ports = <<>> THEN [outcome |-> "returned", value |-> FALSE]
    ELSE LET status == ping[Head(host_ports)]
             rest == is_running(Tail(host_ports), ping)
         IN  IF status = 0 THEN OnPingError(rest)
             ELSE IF status = 200 THEN [outcome |-> "returned", value |-> TRUE]
             ELSE rest

\* `any` written for `all`
AllAlive_Any(containers_alive) ==
    \E i \in 1..Len(containers_alive) : containers_alive[i]

\* all(containers_alive.values())
AllAlive(containers_alive) ==
    \A i \in 1..Len(containers_alive) : containers_alive[i]

AllIdle ==
    /\ OthersIdle
    /\ rd_pc = "idle"
    /\ m_pc = "idle"

RestartFrame ==
    UNCHANGED <<retry_vars, gli_vars, wait_vars, leader, database_identity,
                fail_vars, last_failed, d_last, ensure_vars, row, parse_vars,
                loop_vars, runner_vars, side_vars>>

\* restart_docker() is entered
RestartEnter ==
    /\ AllIdle
    /\ rd_pc' = "restart"
    /\ UNCHANGED <<rd_containers, rd_attempts, rd_alive, rd_sleeps, rd_rounds,
                   rd_outcome, rd_exc, cstate>>
    /\ RestartFrame

\* a docker command of restart_docker exits non-zero: CalledProcessError
\* leaves the call
RestartCommandFails ==
    /\ rd_pc \in {"restart", "list", "round"}
    /\ rd_pc' = "done"
    /\ rd_outcome' = "raised"
    /\ rd_exc' = "CalledProcessError"
    /\ UNCHANGED <<rd_containers, rd_attempts, rd_alive, rd_sleeps, rd_rounds, cstate>>
    /\ RestartFrame

\* docker.compose("restart") returns: every container has been started again
RestartCompose ==
    /\ rd_pc = "restart"
    /\ rd_pc' = "list"
    /\ cstate' = ComposeEffect("restart", cstate)
    /\ UNCHANGED <<rd_containers, rd_attempts, rd_alive, rd_sleeps, rd_rounds,
                   rd_outcome, rd_exc>>
    /\ RestartFrame

\* containers = docker.list_spacetimedb_containers(); an empty list raises
RestartList(containers) ==
    /\ rd_pc = "list"
    /\ rd_containers' = containers
    /\ IF containers = <<>>
       THEN /\ rd_pc' = "done"
            /\ rd_outcome' = "raised"
            /\ rd_exc' = "Exception"
       ELSE /\ rd_pc' = "loop"
            /\ UNCHANGED <<rd_outcome, rd_exc>>
    /\ UNCHANGED <<rd_attempts, rd_alive, rd_sleeps, rd_rounds, cstate>>
    /\ RestartFrame

\* the loop head: another round, or the final raise
RestartLoop ==
    /\ rd_pc = "loop"
    /\ IF RestartHasAttempt(rd_attempts)
       THEN /\ rd_attempts' = rd_attempts + 1
            /\ rd_pc' = "round"
            /\ UNCHANGED <<rd_outcome, rd_exc>>
       ELSE /\ rd_pc' = "done"
            /\ rd_outcome' = "raised"
            /\ rd_exc' = "Exception"
            /\ UNCHANGED rd_attempts
    /\ UNCHANGED <<rd_containers, rd_alive, rd_sleeps, rd_rounds, cstate>>
    /\ RestartFrame

\* one round: is_running of every listed container, then the test of all()
RestartRound ==
    /\ rd_pc = "round"
    /\ \E ports \in [1..Len(rd_containers) -> PortOrders] :
       \E ping \in [{1, 2} -> PingResults] :
          LET running == [i \in 1..Len(rd_containers) |-> is_running(ports[i], ping)]
              containers_alive == [i \in 1..Len(rd_containers) |-> running[i].value]
          IN  /\ rd_rounds' = [polled |-> rd_rounds.polled + 1,
                               all_up |-> \A i \in 1..Len(rd_containers) :
                                              \E k \in 1..Len(ports[i]) :
                                                 ping[ports[i][k]] = 200,
                               ports |-> ports,
                               ping |-> ping]
              /\ IF \E i \in 1..Len(rd_containers) : running[i].outcome = "raised"
                 THEN /\ rd_pc' = "done"
                      /\ rd_outcome' = "raised"
                      /\ rd_exc' = "URLError"
                      /\ UNCHANGED rd_alive
                 ELSE /\ rd_alive' = containers_alive
                      /\ rd_pc' = IF AllAlive(containers_alive) THEN "settle" ELSE "sleep"
                      /\ UNCHANGED <<rd_outcome, rd_exc>>
    /\ UNCHANGED <<rd_containers, rd_attempts, rd_sleeps, cstate>>
    /\ RestartFrame

\* time.sleep(1) returns
RestartSleepDone ==
    /\ rd_pc = "sleep"
    /\ rd_pc' = "loop"
    /\ rd_sleeps' = [rd_sleeps EXCEPT !.poll = @ + 1]
    /\ UNCHANGED <<rd_containers, rd_attempts, rd_alive, rd_rounds, rd_outcome,
                   rd_exc, cstate>>
    /\ RestartFrame

\* time.sleep(2) returns, and restart_docker with it
RestartSettleDone ==
    /\ rd_pc = "settle"
    /\ rd_pc' = "done"
    /\ rd_sleeps' = [rd_sleeps EXCEPT !.settle = @ + 1]
    /\ rd_outcome' = "returned"
    /\ UNCHANGED <<rd_containers, rd_attempts, rd_alive, rd_rounds, rd_exc, cstate>>
    /\ RestartFrame

\* the call has left its frame
RestartReturn ==
    /\ rd_pc = "done"
    /\ rd_pc' = "idle"
    /\ rd_containers' = <<>>
    /\ rd_attempts' = 0
    /\ rd_alive' = <<>>
    /\ rd_sleeps' = NoSleeps
    /\ rd_rounds' = NoRounds
    /\ rd_outcome' = "none"
    /\ rd_exc' = "none"
    /\ UNCHANGED cstate
    /\ RestartFrame

RestartStep ==
    \/ RestartCommandFails
    \/ RestartCompose
    \/ \E containers \in RestartLists : RestartList(containers)
    \/ RestartLoop
    \/ RestartRound
    \/ RestartSleepDone
    \/ RestartSettleDone
    \/ RestartReturn

\* ------------------------------------------------- unittest_parallel.main
IntMax(a, b) == IF a >= b THEN a ELSE b

IntMin(a, b) == IF a <= b THEN a ELSE b

\* process_count = max(0, args.jobs), os.cpu_count() for 0, then
\* max(1, min(len(test_suites), process_count))
ProcessCount(jobs, cpu_count, suites) ==
    LET asked == IntMax(0, jobs)
        wanted == IF asked = 0 THEN cpu_count ELSE asked
    IN  IntMax(1, IntMin(suites, wanted))

NoResult == [tests_run |-> 0, errors |-> 0, failures |-> 0,
             unexpected_successes |-> 0, shouldStop |-> FALSE]

\* the result of a suite whose tests all passed
Passed == [tests_run |-> 1, errors |-> 0, failures |-> 0, unexpected_successes |-> 0,
           shouldStop |-> FALSE]

\* what runner.run(test_suite) can return: all passed, an error, a failure
\* under failfast, an unexpected success
SuiteResults ==
    {Passed,
     [tests_run |-> 2, errors |-> 1, failures |-> 0, unexpected_successes |-> 0,
      shouldStop |-> FALSE],
     [tests_run |-> 1, errors |-> 0, failures |-> 1, unexpected_successes |-> 0,
      shouldStop |-> TRUE],
     [tests_run |-> 1, errors |-> 0, failures |-> 0, unexpected_successes |-> 1,
      shouldStop |-> FALSE]}

\* a suite that has not touched the cluster
Untouched == [at |-> "before", action |-> "none", cid |-> <<>>]

Running == {i \in 1..Len(futures) : futures[i] = "running"}

\* no future is cancelled
CancelAll_None(futs) == futs

\* fut.cancel() on every future: only one that has not started is cancelled
CancelAll(futs) ==
    [j \in 1..Len(futs) |-> IF futs[j] = "pending" THEN "cancelled" ELSE futs[j]]

\* the sums the loop over as_completed keeps
AddResult(sums, result) ==
    [tests_run |-> sums.tests_run + result.tests_run,
     errors |-> sums.errors + result.errors,
     failures |-> sums.failures + result.failures,
     unexpected_successes |-> sums.unexpected_successes + result.unexpected_successes]

\* an unexpected success is not looked at
IsSuccess_NoUnexpected(sums) == sums.errors = 0 /\ sums.failures = 0

\* is_success = not(errors or failures or unexpected_successes)
IsSuccess(sums) ==
    sums.errors = 0 /\ sums.failures = 0 /\ sums.unexpected_successes = 0

\* parser.exit(status=len(errors) + len(failures) + unexpected_successes)
ExitStatus(sums) == sums.errors + sums.failures + sums.unexpected_successes

\* a suite waits while another suite is between its fail and its restore
SuiteMayAct_Serialised(i) ==
    /\ futures[i] = "running"
    /\ \A j \in 1..Len(futures) : j # i => phase[j].at # "failed"

\* a suite's test acts whenever a worker thread is running it
SuiteMayAct(i) == futures[i] = "running"

RunnerFrame ==
    UNCHANGED <<retry_vars, gli_vars, wait_vars, leader, database_identity,
                fail_vars, last_failed, d_last, ensure_vars, row, parse_vars,
                loop_vars, restart_vars, side_vars>>

\* the class suites of the members of test_suite from member m on, each named
\* by its member and its place in it
RECURSIVE iter_class_suites(_, _)
iter_class_suites(test_suite, m) ==
    IF m > Len(test_suite) THEN <<>>
    ELSE [c \in 1..test_suite[m] |-> <<m, c>>] \o iter_class_suites(test_suite, m + 1)

\* the suites handed to executor.submit, one future each: `for suite in
\* discover_suite`
Submitted(discovered) == [m \in 1..Len(discovered) |-> m]

\* main counts the workers from the class suites and submits the members of
\* discover_suite to the executor
RunnerStart(discovered, jobs, cpu_count) ==
    /\ AllIdle
    /\ m_pc' = "collect"
    /\ discover_suite' = discovered
    /\ process_count' =
          ProcessCount(jobs, cpu_count, Len(iter_class_suites(discovered, 1)))
    /\ futures' = [i \in 1..Len(Submitted(discovered)) |-> "pending"]
    /\ results' = [i \in 1..Len(Submitted(discovered)) |-> NoResult]
    /\ phase' = [i \in 1..Len(Submitted(discovered)) |-> Untouched]
    /\ UNCHANGED <<collected, totals, exit_status, cstate>>
    /\ RunnerFrame

\* a free worker thread takes the oldest future that has not started
WorkerStart ==
    /\ m_pc = "collect"
    /\ Cardinality(Running) < process_count
    /\ \E i \in 1..Len(futures) :
          /\ futures[i] = "pending"
          /\ \A j \in 1..(i - 1) : futures[j] # "pending"
          /\ futures' = [futures EXCEPT ![i] = "running"]
    /\ UNCHANGED <<process_count, discover_suite, results, phase, collected, totals, m_pc,
                   exit_status, cstate>>
    /\ RunnerFrame

\* a running suite's fail_leader(action) has its docker command executed
SuiteFail(i, action, cid) ==
    /\ SuiteMayAct(i)
    /\ phase[i].at = "before"
    /\ FailCommandOf(action) # "none"
    /\ cstate' = ContainerCommand(FailCommandOf(action), cid, TRUE).state
    /\ phase' = [phase EXCEPT ![i] = [at |-> "failed", action |-> action, cid |-> cid]]
    /\ UNCHANGED <<process_count, discover_suite, futures, results, collected, totals, m_pc, exit_status>>
    /\ RunnerFrame

\* a running suite's restore_leader(container_id, action) with the container
\* its fail_leader returned
SuiteRestore(i) ==
    /\ SuiteMayAct(i)
    /\ phase[i].at = "failed"
    /\ LET action == IF phase[i].action = "kill" THEN "start" ELSE "connect"
       IN  cstate' = ContainerCommand(RestoreCommandOf(action), phase[i].cid, TRUE).state
    /\ phase' = [phase EXCEPT ![i] = [at |-> "restored", action |-> "none", cid |-> <<>>]]
    /\ UNCHANGED <<process_count, discover_suite, futures, results, collected, totals, m_pc, exit_status>>
    /\ RunnerFrame

\* a running suite's restart_docker() has its compose restart executed
SuiteRestart(i) ==
    /\ SuiteMayAct(i)
    /\ phase[i].at = "before"
    /\ cstate' = ComposeEffect("restart", cstate)
    /\ phase' = [phase EXCEPT ![i].at = "restarted"]
    /\ UNCHANGED <<process_count, discover_suite, futures, results, collected, totals, m_pc, exit_status>>
    /\ RunnerFrame

\* run_tests returns the suite's result
SuiteFinish(i, result) ==
    /\ futures[i] = "running"
    /\ futures' = [futures EXCEPT ![i] = "finished"]
    /\ results' = [results EXCEPT ![i] = result]
    /\ UNCHANGED <<process_count, discover_suite, phase, collected, totals, m_pc, exit_status, cstate>>
    /\ RunnerFrame

\* one turn of `for fut in concurrent.futures.as_completed(futures)`
MainCollect(i) ==
    /\ m_pc = "collect"
    /\ i \notin collected
    /\ futures[i] \in {"finished", "cancelled"}
    /\ collected' = collected \cup {i}
    /\ IF futures[i] = "cancelled"
       THEN UNCHANGED <<totals, futures>>
       ELSE /\ totals' = AddResult(totals, results[i])
            /\ futures' = IF results[i].shouldStop THEN CancelAll(futures) ELSE futures
    /\ UNCHANGED <<process_count, discover_suite, results, phase, m_pc, exit_status, cstate>>
    /\ RunnerFrame

\* every future has been yielded: the report and the exit status
MainReport ==
    /\ m_pc = "collect"
    /\ collected = 1..Len(futures)
    /\ m_pc' = "done"
    /\ exit_status' = IF IsSuccess(totals) THEN 0 ELSE ExitStatus(totals)
    /\ UNCHANGED <<process_count, discover_suite, futures, results, phase, collected, totals, cstate>>
    /\ RunnerFrame

\* what the tests of a running suite do to the cluster
SuiteStep ==
    \E i \in 1..Len(futures) :
       \/ \E action \in FailActions : \E cid \in ContainerIds : SuiteFail(i, action, cid)
       \/ SuiteRestore(i)
       \/ SuiteRestart(i)

\* ------------------------------------------------------------ ReturnThread
\* the variables of the cluster harness and of the runner
main_vars == <<retry_vars, gli_vars, wait_vars, leader, cstate, database_identity,
               fail_vars, last_failed, d_last, ensure_vars, row, parse_vars,
               loop_vars, restart_vars, runner_vars>>

ThreadFrame == UNCHANGED <<main_vars, publish_vars, test_vars>>

\* what a target can do: return a value (run() of subscribe returns the
\* updates it read, here their number; another target may return None) or
\* raise (run() raises CalledProcessError; any target can be interrupted)
TargetOutcomes ==
    {[kind |-> "returned", value |-> v, exc |-> NoException] : v \in {None, 0, 1}}
    \cup {[kind |-> "raised", value |-> None, exc |-> e] :
             e \in {"CalledProcessError", "KeyboardInterrupt"}}

\* ReturnThread(run): __init__ starts the thread and returns; subscribe hands
\* the bound join to its caller
ThreadStart ==
    /\ AllIdle
    /\ th_state = "none"
    /\ th_state' = "started"
    /\ th_exception' = NoException
    /\ c_out' = [kind |-> "returned", value |-> None, exc |-> NoException]
    /\ UNCHANGED <<th_target, th_result, joins>>
    /\ ThreadFrame

\* _task: try: self._result = self._target() / except BaseException as e:
\* self._exception = e
TaskRun(outcome) ==
    /\ th_state = "started"
    /\ th_state' = "ran"
    /\ th_target' = outcome
    /\ IF outcome.kind = "returned"
       THEN /\ th_result' = [set |-> TRUE, value |-> outcome.value]
            /\ UNCHANGED th_exception
       ELSE /\ th_exception' = outcome.exc
            /\ UNCHANGED th_result
    /\ UNCHANGED <<c_out, joins>>
    /\ ThreadFrame

\* _task: finally: del self._target, and the thread ends
TaskEnd ==
    /\ th_state = "ran"
    /\ th_state' = "ended"
    /\ UNCHANGED <<th_target, th_exception, th_result, c_out, joins>>
    /\ ThreadFrame

\* join(timeout) is called on the handle: self._thread.join(timeout) blocks
JoinEnter(j, timeout) ==
    /\ c_out.kind = "returned"
    /\ joins[j].pc = "idle"
    /\ joins' = [joins EXCEPT ![j] = [pc |-> "blocked", timeout |-> timeout,
                                      out |-> NoOutcome]]
    /\ UNCHANGED <<th_state, th_target, th_exception, th_result, c_out>>
    /\ ThreadFrame

\* self._thread.join returns at once, whether the thread has ended or not
ThreadJoined_NoWait(state, timeout) == TRUE

\* self._thread.join(timeout) returns when the thread has ended, or when a
\* timeout that was given runs out
ThreadJoined(state, timeout) == state = "ended" \/ timeout

\* the exception is not looked at
JoinOutcome_NoRaise(exception, result) ==
    IF ~result.set
    THEN [kind |-> "raised", value |-> None, exc |-> "AttributeError"]
    ELSE [kind |-> "returned", value |-> result.value, exc |-> NoException]

\* if self._exception is not None: raise self._exception / return self._result
JoinOutcome(exception, result) ==
    IF exception # NoException
    THEN [kind |-> "raised", value |-> None, exc |-> exception]
    ELSE IF ~result.set
         THEN [kind |-> "raised", value |-> None, exc |-> "AttributeError"]
         ELSE [kind |-> "returned", value |-> result.value, exc |-> NoException]

\* join goes on after self._thread.join and returns or raises
JoinWake(j) ==
    /\ joins[j].pc = "blocked"
    /\ ThreadJoined(th_state, joins[j].timeout)
    /\ joins' = [joins EXCEPT ![j].pc = "done",
                              ![j].out = JoinOutcome(th_exception, th_result)]
    /\ UNCHANGED <<th_state, th_target, th_exception, th_result, c_out>>
    /\ ThreadFrame

\* -------------------------------------------------- find-publish-list.py
\* the most crates in the workspace, and the most roots named
MaxCrates == 3

MaxRoots == 2

\* a dependency on a crate that is not of the workspace
External == 0

Dep(name, kind) == [name |-> name, kind |-> kind]

\* the sequences without repetition of the members of S
RECURSIVE Orders(_)
Orders(S) ==
    IF S = {} THEN {<<>>}
    ELSE UNION {{<<x>> \o rest : rest \in Orders(S \ {x})} : x \in S}

\* the dependency lists a crate can have when the normal dependencies are
\* acyclic: normal dependencies on crates named later, in any order; the
\* first crate may also depend on an external crate, and the last crate may
\* have a dev-dependency on the first, which closes a cycle
DepLists(c, max_crates) ==
    {ext \o [i \in 1..Len(order) |-> Dep(order[i], "normal")] \o dev :
        order \in UNION {Orders(S) : S \in SUBSET ((c + 1)..max_crates)},
        ext \in IF c = 1 THEN {<<>>, <<Dep(External, "normal")>>} ELSE {<<>>},
        dev \in IF c = max_crates THEN {<<>>, <<Dep(1, "dev")>>} ELSE {<<>>}}

\* the metadata of the first c crates of a workspace
RECURSIVE MetadataUpTo(_, _)
MetadataUpTo(c, max_crates) ==
    IF c = 0 THEN {<<>>}
    ELSE {Append(m, deps) : m \in MetadataUpTo(c - 1, max_crates),
                            deps \in DepLists(c, max_crates)}

CrateMetadata(max_crates) == MetadataUpTo(max_crates, max_crates)

Roots(max_crates, max_roots) ==
    UNION {[1..n -> 1..max_crates] : n \in 1..max_roots}

\* deps filtered: no dev-dependencies, only crates in crate_metadata
find_spacetimedb_dependencies(crate_metadata, crate) ==
    LET deps == SelectSeq(crate_metadata[crate], LAMBDA dep : dep.kind # "dev")
        dep_names == [i \in 1..Len(deps) |-> deps[i].name]
    IN  SelectSeq(dep_names, LAMBDA dep : dep \in DOMAIN crate_metadata)

\* all_deps = list(deps), extended by process_crate of each dep in turn
RECURSIVE process_crate(_, _, _)
RECURSIVE ExtendSubDeps(_, _, _)
process_crate(crate_name, crate_metadata, recursive) ==
    LET deps == find_spacetimedb_dependencies(crate_metadata, crate_name)
    IN  IF recursive THEN deps \o ExtendSubDeps(deps, crate_metadata, 1) ELSE deps

ExtendSubDeps(deps, crate_metadata, i) ==
    IF i > Len(deps) THEN <<>>
    ELSE process_crate(deps[i], crate_metadata, TRUE)
            \o ExtendSubDeps(deps, crate_metadata, i + 1)

\* the first occurrence of every item is kept
RECURSIVE ordered_dedup(_)
ordered_dedup(items) ==
    IF items = <<>> THEN <<>>
    ELSE LET front == ordered_dedup(SubSeq(items, 1, Len(items) - 1))
             item == items[Len(items)]
         IN  IF \E i \in 1..Len(front) : front[i] = item THEN front
             ELSE Append(front, item)

\* the list as it is
Reversed_Not(items) == items

Reversed(items) == [i \in 1..Len(items) |-> items[Len(items) + 1 - i]]

\* all_crates = list(args.root), extended by process_crate of each root
RECURSIVE CollectRoots(_, _, _, _)
CollectRoots(roots, crate_metadata, recursive, i) ==
    IF i > Len(roots) THEN <<>>
    ELSE process_crate(roots[i], crate_metadata, recursive)
            \o CollectRoots(roots, crate_metadata, recursive, i + 1)

PublishOrder(roots, crate_metadata, recursive) ==
    ordered_dedup(Reversed(roots \o CollectRoots(roots, crate_metadata, recursive, 1)))

\* the script runs and prints publish_order
FindPublishList ==
    /\ pub_pc = "input"
    /\ pub_pc' = "done"
    /\ pub_order' = PublishOrder(pub_roots, pub_metadata, pub_recursive)
    /\ UNCHANGED <<pub_metadata, pub_roots, pub_recursive>>
    /\ UNCHANGED <<main_vars, thread_vars, test_vars>>

\* ------------------------------------------------------- the loop tests
\* iterations = 5
Iterations == 5

\* the nodes a test sees leading
TestLeaders == {1, 2}

TestFrame ==
    UNCHANGED <<retry_vars, gli_vars, wait_vars, leader, database_identity,
                fail_vars, last_failed, ensure_vars, row, parse_vars, loop_vars,
                restart_vars, runner_vars, thread_vars, publish_vars>>

\* an exception leaves the test method: nothing in it or in tearDown catches
\* it or acts on the containers
TestRaises(exc) ==
    /\ ts_pc' = "ended"
    /\ ts_exc' = exc

\* the runner calls the test method
TestEnter(action) ==
    /\ AllIdle
    /\ ts_pc = "idle"
    /\ ts_pc' = "wait_first"
    /\ ts_action' = action
    /\ ts_iter' = 1
    /\ UNCHANGED <<ts_cur, ts_container, ts_failed, ts_exc, cstate, d_last>>
    /\ TestFrame

\* cur_leader = self.cluster.wait_for_leader_change(None)
TestWaitFirst ==
    /\ ts_pc = "wait_first"
    /\ \/ \E node \in TestLeaders :
             /\ ts_cur' = node
             /\ ts_pc' = "ensure_first"
             /\ UNCHANGED ts_exc
       \/ /\ TestRaises("IndexError")
          /\ UNCHANGED ts_cur
    /\ UNCHANGED <<ts_action, ts_iter, ts_container, ts_failed, cstate, d_last>>
    /\ TestFrame

\* self.cluster.ensure_leader_health(first_id) and (second_id)
TestEnsure ==
    /\ ts_pc \in {"ensure_first", "ensure_second"}
    /\ \/ /\ ts_pc' = IF ts_pc = "ensure_first" THEN "fail" ELSE "restore"
          /\ UNCHANGED ts_exc
       \/ TestRaises("NameError")
    /\ UNCHANGED <<ts_action, ts_iter, ts_cur, ts_container, ts_failed, cstate, d_last>>
    /\ TestFrame

\* container_id = self.cluster.fail_leader(action); assertIsNotNone
TestFail ==
    /\ ts_pc = "fail"
    /\ \/ /\ TestRaises("ValueError")
          /\ UNCHANGED <<ts_container, ts_failed, cstate, d_last>>
       \/ \E cid \in ContainerIds : \E daemon_ok \in BOOLEAN :
             LET c == ContainerCommand(FailCommandOf(ts_action), cid, daemon_ok)
             IN  /\ cstate' = c.state
                 /\ d_last' = c.last
                 /\ IF c.outcome = "returned"
                    THEN /\ ts_container' = cid
                         /\ ts_failed' = ts_failed \cup {cid}
                         /\ ts_pc' = "wait_next"
                         /\ UNCHANGED ts_exc
                    ELSE /\ TestRaises(c.exc)
                         /\ UNCHANGED <<ts_container, ts_failed>>
    /\ UNCHANGED <<ts_action, ts_iter, ts_cur>>
    /\ TestFrame

\* next_leader = self.cluster.wait_for_leader_change(cur_leader), which gives
\* another node or None; assertNotEqual(cur_leader, next_leader)
TestWaitNext ==
    /\ ts_pc = "wait_next"
    /\ \/ \E next_leader \in (TestLeaders \cup {None}) \ {ts_cur} :
             IF next_leader = ts_cur
             THEN TestRaises("AssertionError")
             ELSE ts_pc' = "ensure_second" /\ UNCHANGED ts_exc
       \/ TestRaises("IndexError")
    /\ UNCHANGED <<ts_action, ts_iter, ts_cur, ts_container, ts_failed, cstate, d_last>>
    /\ TestFrame

\* the container is not started or connected again
\* self.cluster.restore_leader(container_id, 'start') or (container_id,
\* 'connect'), and the next turn of the loop
TestRestore ==
    /\ ts_pc = "restore"
    /\ \E daemon_ok \in BOOLEAN :
          LET action == IF ts_action = "kill" THEN "start" ELSE "connect"
              c == ContainerCommand(RestoreCommandOf(action), ts_container, daemon_ok)
          IN  /\ cstate' = c.state
              /\ d_last' = c.last
              /\ IF c.outcome = "returned"
                 THEN /\ ts_failed' = ts_failed \ {ts_container}
                      /\ ts_pc' = IF ts_iter < Iterations THEN "wait_first" ELSE "verify"
                      /\ ts_iter' = IF ts_iter < Iterations THEN ts_iter + 1 ELSE ts_iter
                      /\ UNCHANGED ts_exc
                 ELSE /\ TestRaises(c.exc)
                      /\ UNCHANGED <<ts_failed, ts_iter>>
    /\ UNCHANGED <<ts_action, ts_cur, ts_container>>
    /\ TestFrame

\* the closing loop: every row is read and looked for
TestVerify ==
    /\ ts_pc = "verify"
    /\ \/ TestRaises("none")
       \/ TestRaises("AssertionError")
    /\ UNCHANGED <<ts_action, ts_iter, ts_cur, ts_container, ts_failed, cstate, d_last>>
    /\ TestFrame

ExtInit ==
    /\ cstate = [i \in 1..Len(Containers) |-> ContainerUp]
    /\ database_identity = IdentityA
    /\ FailInit
    /\ last_failed = None
    /\ d_last = NoCommand
    /\ EnsureInit
    /\ ParseIdle
    /\ AuxIdle

\* --------------------------------------------------------- specification
vars == <<retry_vars, gli_vars, wait_vars, leader, ext_vars>>

Init ==
    /\ RetryInit
    /\ GliInit
    /\ WaitInit
    /\ leader \in ReplicaIds \cup {NoRow}
    /\ ExtInit

RetryEnter ==
    /\ w_pc = "idle"
    /\ \E n \in 1..MaxRetries : RetryCall(n)
    /\ UNCHANGED <<gli_vars, wait_vars, leader, ext_vars>>

RetryRun ==
    /\ RetryStep
    /\ UNCHANGED <<gli_vars, wait_vars, leader, ext_vars>>

WaitEnter ==
    \E prev \in NodeIds \cup {None} : \E n \in 0..MaxAttempts : WaitCall(prev, n)

Environment ==
    /\ LeaderChange
    /\ UNCHANGED <<gli_vars, wait_vars, fail_vars, last_failed, d_last,
                   ensure_vars, row, parse_vars, aux_vars>>

Next ==
    \/ RetryEnter
    \/ RetryRun
    \/ WaitEnter
    \/ WaitStep
    \/ Environment

Spec == Init /\ [][Next]_vars

\* the harness is one thread that keeps running: a call that can take a step
\* takes it (sleeps end, commands return)
FairSpec == Spec /\ WF_vars(RetryRun) /\ WF_vars(WaitStep)

\* --------------------------------- specification: failing the leader
\* wait_for_leader_change as the tests call it after fail_leader: with the
\* node of the leader that was failed
ClusterWaitEnter ==
    /\ f_pc = "idle"
    /\ e_pc = "idle"
    /\ last_failed # None
    /\ \E n \in 1..MaxAttempts : WaitCall(last_failed, n)

FailCall == \E action \in FailActions : FailEnter(action)

FailStep ==
    \/ FailInfoStep
    \/ FailInfoRaised
    \/ FailAct
    \/ FailReturn

RestoreEnter ==
    \E cid \in ContainerIds : \E action \in RestoreActions : RestoreCall(cid, action)

ClusterNext ==
    \/ FailCall
    \/ FailStep
    \/ RestoreEnter
    \/ ClusterWaitEnter
    \/ WaitStep
    \/ Environment

ClusterSpec == Init /\ [][ClusterNext]_vars

\* ------------------------- specification: publishing between cluster calls
PublishCall == \E identity \in Identities : Publish(identity)

IdentityWaitEnter ==
    /\ f_pc = "idle"
    /\ e_pc = "idle"
    /\ \E prev \in {None, 1} : \E n \in 1..MaxAttempts : WaitCall(prev, n)

IdentityNext ==
    \/ PublishCall
    \/ IdentityWaitEnter
    \/ WaitStep
    \/ Environment

IdentitySpec == Init /\ [][IdentityNext]_vars

\* ------------------------------------- specification: parsing query results
\* a query has printed a table, or nothing at all; nothing else is going on
ParseInit ==
    /\ RetryInit
    /\ GliInit
    /\ WaitInit
    /\ leader = NoRow
    /\ cstate = [i \in 1..Len(Containers) |-> ContainerUp]
    /\ database_identity = IdentityA
    /\ FailInit
    /\ last_failed = None
    /\ d_last = NoCommand
    /\ EnsureInit
    /\ p_pc = "input"
    /\ p_table \in SqlTables(MaxCols, MaxRows) \cup {NoTable}
    /\ p_text = IF p_table = NoTable THEN <<>> ELSE RenderSqlTable(p_table)
    /\ p_out = NoParse
    /\ AuxIdle

ParseNext == ParseCall

ParseSpec == ParseInit /\ [][ParseNext]_vars

\* ------------------------------------ specification: restarting the cluster
\* nothing is going on and no harness call is active
QuietInit ==
    /\ RetryInit
    /\ GliInit
    /\ WaitInit
    /\ leader = NoRow
    /\ ExtInit

RestartNext ==
    \/ RestartEnter
    \/ RestartStep

RestartSpec == QuietInit /\ [][RestartNext]_vars

\* --------------------------------------- specification: the parallel runner
\* loadTestsFromNames gives one member suite per name; a member holds the
\* class suites of its module
DiscoveredSuites(max_suites, max_classes) ==
    UNION {[1..n -> 1..max_classes] : n \in 0..max_suites}

RunnerCall(max_suites, max_classes) ==
    \E discovered \in DiscoveredSuites(max_suites, max_classes) :
       \E jobs \in -1..MaxJobs : \E cpu_count \in 1..MaxJobs :
          RunnerStart(discovered, jobs, cpu_count)

\* the runner and the results it adds up
\* every name given is a test class
RunnerNext ==
    \/ RunnerCall(MaxSuites, 1)
    \/ WorkerStart
    \/ \E i \in 1..Len(futures) : \E result \in SuiteResults : SuiteFinish(i, result)
    \/ \E i \in 1..Len(futures) : MainCollect(i)
    \/ MainReport

RunnerSpec == QuietInit /\ [][RunnerNext]_vars

\* ------------------------------- specification: what the runner submits
\* names of modules and of classes are given, and every suite passes
SubmitNext ==
    \/ RunnerCall(MaxSuites, MaxClasses)
    \/ WorkerStart
    \/ \E i \in 1..Len(futures) : SuiteFinish(i, Passed)
    \/ \E i \in 1..Len(futures) : MainCollect(i)
    \/ MainReport

SubmitSpec == QuietInit /\ [][SubmitNext]_vars

\* ------------------------------- specification: the publish order
PublishInit ==
    /\ RetryInit
    /\ GliInit
    /\ WaitInit
    /\ leader = NoRow
    /\ cstate = [i \in 1..Len(Containers) |-> ContainerUp]
    /\ database_identity = IdentityA
    /\ FailInit
    /\ last_failed = None
    /\ d_last = NoCommand
    /\ EnsureInit
    /\ ParseIdle
    /\ LoopIdle
    /\ RestartIdle
    /\ RunnerIdle
    /\ ThreadIdle
    /\ TestIdle
    /\ pub_pc = "input"
    /\ pub_metadata \in CrateMetadata(MaxCrates)
    /\ pub_roots \in Roots(MaxCrates, MaxRoots)
    /\ pub_recursive \in BOOLEAN
    /\ pub_order = <<>>

PublishNext == FindPublishList

PublishSpec == PublishInit /\ [][PublishNext]_vars

\* ------------------------------------ specification: a loop test's run
TestNext ==
    \/ \E action \in {"kill", "disconnect"} : TestEnter(action)
    \/ TestWaitFirst
    \/ TestEnsure
    \/ TestFail
    \/ TestWaitNext
    \/ TestRestore
    \/ TestVerify

TestSpec == QuietInit /\ [][TestNext]_vars

\* ----------------------------- specification: a thread and its joiners
ThreadNext ==
    \/ ThreadStart
    \/ \E outcome \in TargetOutcomes : TaskRun(outcome)
    \/ TaskEnd
    \/ \E j \in 1..MaxJoins : \E timeout \in BOOLEAN : JoinEnter(j, timeout)
    \/ \E j \in 1..MaxJoins : JoinWake(j)

ThreadSpec == QuietInit /\ [][ThreadNext]_vars

\* ------------------------------------- specification: a run with failfast
\* a suite passes, or its first failure stops it and sets shouldStop
FailfastResults == {result \in SuiteResults : result = Passed \/ result.shouldStop}

FailfastNext ==
    \/ RunnerCall(MaxQueued, 1)
    \/ WorkerStart
    \/ \E i \in 1..Len(futures) : \E result \in FailfastResults : SuiteFinish(i, result)
    \/ \E i \in 1..Len(futures) : MainCollect(i)
    \/ MainReport

\* the pool's worker threads and the main thread keep running, and a suite
\* that has started comes to an end
FailfastSpec ==
    /\ QuietInit
    /\ [][FailfastNext]_vars
    /\ WF_vars(WorkerStart)
    /\ WF_vars(\E i \in 1..Len(futures) : \E result \in FailfastResults :
                  SuiteFinish(i, result))
    /\ WF_vars(\E i \in 1..Len(futures) : MainCollect(i))
    /\ WF_vars(MainReport)

\* -------------------------- specification: suites sharing the one cluster
\* the worker threads and what the suites they run do to the cluster
IsolationNext ==
    \/ RunnerCall(MaxSuites, 1)
    \/ WorkerStart
    \/ SuiteStep
    \/ \E i \in 1..Len(futures) : SuiteFinish(i, Passed)

IsolationSpec == QuietInit /\ [][IsolationNext]_vars

\* ------------------------------ specification: checking the leader's health
EnsureCall == \E wait_time \in WaitTimes : EnsureEnter(wait_time)

HealthNext ==
    \/ EnsureCall
    \/ EnsureStep
    \/ ScheduledReducerRuns
    \/ Environment

HealthSpec == Init /\ [][HealthNext]_vars

\* ------------------------------------------ specification: the loop tests
\* the calls of test_leader_election_in_loop and test_leader_c_disconnect_in_loop
\* in any order, with the reads of the replica table and of the counter row
LoopNext ==
    \/ FailCall
    \/ FailStep
    \/ RestoreEnter
    \/ EnsureCall
    \/ EnsureStep
    \/ ScheduledReducerRuns
    \/ GetAllReplicas
    \/ VerifyRow

\* the leader the tests start from: one with a container, one without a node
\* address, or none elected yet
LoopInit ==
    /\ Init
    /\ leader \in {4, 7, NoRow}

LoopSpec == LoopInit /\ [][LoopNext]_vars

\* ------------------------------- specification: observing a failing cluster
\* the observation operations between and after fail_leader and
\* restore_leader, while the cluster elects leaders on its own
\* wait_for_leader_change as the loop tests call it: with None before the
\* failure and with the failed leader's node after it, two polls at most
ObserveWaitEnter ==
    /\ f_pc = "idle"
    /\ e_pc = "idle"
    /\ WaitCall(last_failed, 2)

\* the cluster elects one of two replicas that have a container, or is left
\* without a leader
ObserveElection ==
    /\ Environment
    /\ leader' \in {4, 5, NoRow}

ObserveNext ==
    \/ FailCall
    \/ FailStep
    \/ RestoreEnter
    \/ ObserveWaitEnter
    \/ WaitStep
    \/ GetAllReplicas
    \/ ObserveElection

ObserveSpec == LoopInit /\ [][ObserveNext]_vars

\* ------------------------------------------------------- properties: retry
AllRaised(calls) == \A i \in 1..Len(calls) : calls[i] = "raise"

FailedLines(k) == [i \in 1..k |-> <<"failed", i>>]

\* C1: if the k-th invocation of func is the first that does not raise, retry
\* has returned exactly the value of that invocation and func has been invoked
\* exactly k times (no invocation follows).
C1_ReturnsFirstSuccess ==
    \A k \in 1..Len(r_calls) :
        r_calls[k] # "raise" =>
            /\ Len(r_calls) = k
            /\ r_pc = "done"
            /\ r_outcome = "returned"
            /\ r_result = r_calls[k]

C1_Witness ==
    /\ r_pc = "done"
    /\ r_max = 3
    /\ r_calls = <<"raise", "raise", "ok">>
    /\ r_result = "ok"

\* C2: if all max_retries invocations of func raised, retry has returned the
\* sentinel False and no exception left it.
C2_ExhaustionReturnsFalse ==
    (r_max >= 1 /\ Len(r_calls) = r_max /\ AllRaised(r_calls)) =>
        /\ r_pc = "done"
        /\ r_outcome = "returned"
        /\ r_result = "False"

C2_Witness ==
    /\ r_pc = "done"
    /\ r_max = 3
    /\ r_calls = <<"raise", "raise", "raise">>
    /\ r_result = "False"

C3_Bounded ==
    /\ Len(r_calls) <= r_max
    /\ (r_pc = "call" => Len(r_calls) < r_max)
    /\ (r_max = 1 => r_sleeps = 0 /\ r_pc # "sleep")
    /\ (r_max = 1 /\ r_pc = "done" => Len(r_calls) = 1)

\* C3: retry invokes func at most max_retries times and every call of retry
\* ends; with max_retries = 1 func is invoked exactly once and retry never
\* sleeps, whether the attempt succeeds or raises.
C3_TerminatesWithinBudget ==
    /\ []C3_Bounded
    /\ (r_pc \in {"call", "sleep"}) ~> (r_pc = "done")

C3_Witness ==
    /\ r_pc = "done"
    /\ r_max = 1
    /\ r_calls = <<"raise">>
    /\ r_sleeps = 0

\* C4: k < max_retries failures followed by a success give the success value,
\* exactly k failed-attempt log lines (numbered 1..k) and no give-up line; in
\* particular 2 lines for max_retries = 3 and two failures.
C4_FailuresLoggedBeforeSuccess ==
    (r_pc = "done" /\ r_calls # <<>> /\ r_calls[Len(r_calls)] # "raise") =>
        /\ r_result = r_calls[Len(r_calls)]
        /\ r_log = FailedLines(Len(r_calls) - 1)

C4_Witness ==
    /\ r_pc = "done"
    /\ r_max = 3
    /\ r_calls = <<"raise", "raise", "None">>
    /\ r_result = "None"
    /\ r_log = <<<<"failed", 1>>, <<"failed", 2>>>>

\* C5 as stated: when all max_retries attempts raise, every one of them,
\* the last included, has a failure line, and one give-up line follows.
C5_Original ==
    (r_pc = "done" /\ Len(r_calls) = r_max /\ AllRaised(r_calls)) =>
        r_log = FailedLines(r_max) \o <<<<"giveup", 0>>>>

\* C5 amended: when all max_retries attempts raise, each of the first
\* max_retries - 1 failed attempts has a failure line, and the last failed
\* attempt has the give-up line only, printed once and last.
C5_ExhaustionLog ==
    (r_pc = "done" /\ Len(r_calls) = r_max /\ AllRaised(r_calls)) =>
        r_log = FailedLines(r_max - 1) \o <<<<"giveup", 0>>>>

C5_Witness ==
    /\ r_pc = "done"
    /\ r_max = 3
    /\ AllRaised(r_calls)
    /\ r_log = <<<<"failed", 1>>, <<"failed", 2>>, <<"giveup", 0>>>>

\* -------------------------------------- properties: wait_for_leader_change
\* polls started so far
WaitPolls == Len(w_seen) + (IF w_pc = "poll" THEN 1 ELSE 0)

\* C6: the call returns at the first poll that observes a leader node id
\* different from prev, with exactly that id and without a further poll; so a
\* returned value that is not None differs from prev.
C6_ReturnsFirstChange ==
    /\ \A i \in 1..Len(w_seen) :
          (w_seen[i] \in NodeIds /\ w_seen[i] # w_prev) =>
              /\ i = Len(w_seen)
              /\ w_pc = "done"
              /\ w_outcome = "returned"
              /\ w_result = w_seen[i]
    /\ (w_outcome = "returned" /\ w_result # None) =>
          /\ w_result # w_prev
          /\ w_result = w_seen[Len(w_seen)]

C6_Witness ==
    /\ w_pc = "done"
    /\ w_prev = 1
    /\ w_seen = <<1, 1, 10>>
    /\ w_result = 10

\* C7 as stated: a poll that finds no leader does not make the call raise.
C7_NoLeaderDoesNotRaise ==
    \A i \in 1..Len(w_seen) :
        w_seen[i] = NoLeaderSeen => w_outcome # "raised"

C8_Bounded ==
    /\ WaitPolls <= w_max
    /\ (w_pc = "done" /\ \A i \in 1..Len(w_seen) : w_seen[i] = w_prev) =>
          /\ w_outcome = "returned"
          /\ w_result = None
          /\ Len(w_seen) = w_max

\* C8: if every poll observes the leader node id prev, the call returns None,
\* without raising, after exactly max_attempts polls; no call makes more than
\* max_attempts polls, and every call ends.
C8_TimeoutReturnsNone ==
    /\ []C8_Bounded
    /\ (w_pc \in {"loop", "poll", "sleep"}) ~> (w_pc = "done")

C8_Witness ==
    /\ w_pc = "done"
    /\ w_prev = 10
    /\ w_seen = <<10, 10, 10>>
    /\ w_outcome = "returned"
    /\ w_result = None

\* C9: the call never sleeps when max_attempts = 0 (it returns None without a
\* poll), nor when its first poll observes a node id different from prev.
C9_NoSleepWhenImmediate ==
    /\ (w_pc # "idle" /\ w_max = 0) =>
          /\ w_sleeps = 0
          /\ WaitPolls = 0
          /\ (w_pc = "done" => w_outcome = "returned" /\ w_result = None)
    /\ (w_seen # <<>> /\ w_seen[1] \in NodeIds /\ w_seen[1] # w_prev) =>
          w_sleeps = 0

C9_WitnessZero ==
    /\ w_pc = "done"
    /\ w_max = 0
    /\ w_result = None

C9_Witness ==
    /\ w_pc = "done"
    /\ w_max = 3
    /\ w_prev = 2
    /\ w_seen = <<10>>
    /\ w_result = 10
    /\ w_sleeps = 0

\* C10: with prev = None and max_attempts >= 1 the call returns at the first
\* poll that finds a leader, with the node id that poll observed, whatever it
\* is; once a poll has found a leader the result is not None.
C10_NonePrevReturnsFirstLeader ==
    (w_prev = None /\ w_max >= 1) =>
        \A i \in 1..Len(w_seen) :
            w_seen[i] \in NodeIds =>
                /\ i = Len(w_seen)
                /\ w_pc = "done"
                /\ w_outcome = "returned"
                /\ w_result = w_seen[i]
                /\ w_result # None

C10_Witness ==
    /\ w_pc = "done"
    /\ w_prev = None
    /\ w_max = 2
    /\ w_seen = <<10>>
    /\ w_outcome = "returned"
    /\ w_result = 10

\* ------------------------------------------ properties: failing the leader
\* the container that runs a node: the node row has an address and a container
\* of the project carries exactly that host name
ContainersOfNode(node) ==
    IF node \in NodeRows \ NoAddrNodes
    THEN {i \in 1..Len(Containers) :
            Containers[i].name = <<"p", "-">> \o HostOf(node) \o <<"-", "1">>}
    ELSE {}

WaitAfterFail ==
    /\ w_pc = "done"
    /\ w_outcome = "returned"
    /\ last_failed # None
    /\ w_prev = last_failed

\* C11 as stated: after a successful fail_leader, wait_for_leader_change(prev)
\* returns a node id that is not None and differs from prev.
C11_Original ==
    WaitAfterFail => (w_result # None /\ w_result # w_prev)

\* C11: after a successful fail_leader, the value wait_for_leader_change(prev)
\* returns is either None, and then every one of the max_attempts polls saw
\* prev, or the node id seen by the last poll, which differs from prev.
C11_ReturnsNoneOrChanged ==
    WaitAfterFail =>
        \/ /\ w_result = None
           /\ Len(w_seen) = w_max
           /\ \A i \in 1..Len(w_seen) : w_seen[i] = w_prev
        \/ /\ w_result \in NodeIds
           /\ w_result # w_prev
           /\ w_result = w_seen[Len(w_seen)]

C11_Witness ==
    /\ WaitAfterFail
    /\ w_max = 2
    /\ w_prev = 1
    /\ w_seen = <<1, 2>>
    /\ w_result = 2

FailDone == f_pc = "done" /\ f_op = "fail"

\* C14 as stated: fail_leader raises and issues no command whenever the
\* leader it found has no container.
C14_RaisesWhenUnresolved ==
    (FailDone /\ f_node # None /\ ContainersOfNode(f_node) = {}) =>
        (f_outcome = "raised" /\ f_cmds = <<>>)

\* C15 as stated: a query step of get_leader_info without rows ends the call
\* with the 'no current leader' error, and no LeaderInfo is returned.
C15_NoRowsExplicitError ==
    /\ (g_pc = "raised" /\ g_truth = NoLeaderSeen) => g_exc = "NoCurrentLeader"
    /\ g_pc = "ret" => g_ret.node_id \in NodeRows

\* C16: a call of fail_leader or restore_leader issues at most one container
\* command, outside of retry; when the command exits non-zero the call raises
\* CalledProcessError and the command is not issued again.
C16_OneShot ==
    /\ Len(f_cmds) <= 1
    /\ f_pc # "idle" => (r_pc = "idle" /\ r_calls = <<>>)
    /\ (f_pc = "done" /\ f_cmds # <<>>) =>
          IF f_cmds[1].exit = 0
          THEN f_outcome = "returned"
          ELSE f_outcome = "raised" /\ f_exc = "CalledProcessError"

C16_Witness ==
    /\ FailDone
    /\ f_action = "kill"
    /\ Len(f_cmds) = 1
    /\ f_cmds[1].cmd = "kill"
    /\ f_cmds[1].exit = 1
    /\ f_outcome = "raised"

\* C17 as stated: a command that exits non-zero fails with a RuntimeError
\* that surfaces stderr, and the command's stdout is returned on exit 0 only.
C17_Original ==
    d_last.cmd # "none" =>
        IF d_last.exit = 0
        THEN d_last.outcome = "returned" /\ d_last.value = d_last.stdout
        ELSE /\ d_last.outcome = "raised"
             /\ IsInstance(d_last.exc, "RuntimeError")
             /\ d_last.printed = <<"Command failed: ", d_last.stderr>>

\* C17: a command that exits non-zero fails with subprocess.CalledProcessError,
\* which is not a RuntimeError, after "Command failed: <stderr>" was printed;
\* on exit 0, and only then, the call returns stdout with the surrounding
\* whitespace stripped.
C17_CalledProcessError ==
    d_last.cmd # "none" =>
        IF d_last.exit = 0
        THEN /\ d_last.outcome = "returned"
             /\ d_last.value = Strip(d_last.stdout)
             /\ d_last.printed = <<>>
        ELSE /\ d_last.outcome = "raised"
             /\ d_last.exc = "CalledProcessError"
             /\ ~IsInstance(d_last.exc, "RuntimeError")
             /\ IsInstance(d_last.exc, "Exception")
             /\ d_last.printed = <<"Command failed: ", d_last.stderr>>

C17_Witness ==
    /\ f_pc = "done"
    /\ f_op = "restore"
    /\ d_last.cmd = "connect"
    /\ d_last.exit = 1
    /\ d_last.stderr = "already connected"
    /\ d_last.exc = "CalledProcessError"

C17_WitnessOk ==
    /\ FailDone
    /\ d_last.cmd = "disconnect"
    /\ d_last.exit = 0
    /\ d_last.stdout = <<"c", "2", "\n">>
    /\ d_last.value = <<"c", "2">>

\* C18: list_containers returns every container of the project whatever its
\* run state; the container of a leader that was killed is still listed and
\* is the one a lookup by the leader's host name finds.
C18_KilledStillListed ==
    LET listed == list_containers(ComposePsOutput)
    IN  /\ listed = Containers
        /\ (last_failed # None /\ ContainersOfNode(last_failed) # {}) =>
              \E i \in ContainersOfNode(last_failed) :
                  FindContainerId(listed, HostOf(last_failed)) = Containers[i].id

C18_Witness ==
    /\ FailDone
    /\ f_action = "kill"
    /\ f_outcome = "returned"
    /\ last_failed = 10
    /\ f_result = <<"c", "3">>
    /\ ~cstate[3].running
    /\ FindContainerId(list_containers(ComposePsOutput), HostOf(10)) = <<"c", "3">>

\* ------------------------------------------ properties: database identity
\* C19 as stated: every call uses the identity the test held when the Cluster
\* was built, whatever publish_module calls came later.
C19_Original ==
    g_database_id # None => g_database_id = DbIdOf[IdentityA]

\* C19: the Cluster keeps the test object, not its identity; each get_db_id
\* call scopes its query by the identity the test holds at the time of the
\* call, which is the one the latest publish_module assigned.
C19_IdentityReadAtCall ==
    /\ database_identity \in Identities
    /\ g_database_id # None => g_database_id = DbIdOf[database_identity]

C19_Witness ==
    /\ database_identity = IdentityB
    /\ g_pc = "leader"
    /\ g_database_id = 13

\* -------------------------------------- properties: ensure_leader_health
\* C12 as stated: the call raises exactly when the read after the write does
\* not show id, then with a ValueError that carries id; it returns otherwise.
C12_RaisesValueErrorOnMiss ==
    e_pc = "done" =>
        /\ (e_outcome = "raised") <=> (e_read # "shown")
        /\ e_outcome = "raised" => (e_exc = "ValueError" /\ e_msg_id = EnsureId)

\* C13 as stated: one failed or empty read does not make the call raise
\* while retry had attempts left.
C13_NoRaiseOnTransientMiss ==
    (e_pc = "done" /\ e_read \in {"empty", "failed"}
        /\ e_write.attempts < DefaultMaxRetries) =>
            e_outcome # "raised"

\* --------------------------------------------- properties: parse_sql_result
\* C20: for the text of a table with n data rows, parse_sql_result returns a
\* list of n mappings in the order of the rows; the i-th mapping has the
\* trimmed column names as keys and sends each name to the trimmed cell at
\* its position in the i-th data line, as a string.
C20_RowsMapped ==
    (p_pc = "done" /\ p_table # NoTable) =>
        /\ p_out.outcome = "returned"
        /\ Len(p_out.value) = Len(p_table.rows)
        /\ \A i \in 1..Len(p_table.rows) :
              /\ DOMAIN p_out.value[i] =
                    {p_table.header[k] : k \in 1..Len(p_table.header)}
              /\ \A k \in 1..Len(p_table.header) :
                    /\ p_out.value[i][p_table.header[k]] = p_table.rows[i][k]
                    /\ p_out.value[i][p_table.header[k]] \in Seq(STRING)

C20_Witness ==
    /\ p_pc = "done"
    /\ p_table.header = << <<"i", "d">>, <<"n", "a", "m", "e">> >>
    /\ p_table.rows = << << <<>>, <<"a", " ", "b">> >>,
                         << <<"a", " ", "b">>, <<>> >> >>
    /\ Len(p_out.value) = 2
    /\ p_out.value[1][<<"n", "a", "m", "e">>] = <<"a", " ", "b">>
    /\ p_out.value[1][<<"i", "d">>] = <<>>
    /\ p_out.value[2][<<"i", "d">>] = <<"a", " ", "b">>

\* ------------------------------------------------- properties: the sleeps
\* C27: retry sleeps once after each failed attempt that another attempt
\* follows, and at no other time: func is called with as many sleeps done as
\* attempts made, a sleep follows a failed attempt that is not the last one,
\* and a finished retry has slept one time less than it has called func.
C27_SleepsBetweenAttempts ==
    /\ r_pc = "call" => (r_sleeps = Len(r_calls) /\ r_attempt = Len(r_calls) + 1)
    /\ r_pc = "sleep" =>
          /\ r_calls # <<>>
          /\ r_calls[Len(r_calls)] = "raise"
          /\ Len(r_calls) < r_max
          /\ r_attempt = Len(r_calls)
          /\ r_sleeps = Len(r_calls)
    /\ (r_pc = "done" /\ r_calls # <<>>) => r_sleeps = Len(r_calls) - 1
    /\ \A i \in 1..Len(r_calls) : i < Len(r_calls) => r_calls[i] = "raise"

C27_Witness ==
    /\ r_pc = "done"
    /\ r_max = 3
    /\ r_calls = <<"raise", "raise", "raise">>
    /\ r_sleeps = 2

C27_WitnessSuccess ==
    /\ r_pc = "done"
    /\ r_calls = <<"raise", "ok">>
    /\ r_sleeps = 1

\* C28 as stated: a call of wait_for_leader_change that made p >= 1 polls has
\* slept p - 1 times, whether it returns a leader or None.
C28_Original ==
    (w_pc = "done" /\ w_outcome = "returned" /\ Len(w_seen) >= 1) =>
        w_sleeps = Len(w_seen) - 1

\* C28: a sleep follows every poll that did not see a change, the last one
\* included: a call that returns a new leader after p polls has slept p - 1
\* times, and a call that returns None after its max_attempts polls has slept
\* max_attempts times.
C28_SleepAfterEachUnchangedPoll ==
    /\ w_pc = "sleep" => w_sleeps = Len(w_seen)
    /\ (w_pc = "done" /\ w_outcome = "returned" /\ w_result # None) =>
          w_sleeps = Len(w_seen) - 1
    /\ (w_pc = "done" /\ w_outcome = "returned" /\ w_result = None) =>
          (w_sleeps = Len(w_seen) /\ Len(w_seen) = w_max)

C28_Witness ==
    /\ w_pc = "done"
    /\ w_outcome = "returned"
    /\ w_result = None
    /\ w_max = 2
    /\ w_seen = <<2, 2>>
    /\ w_sleeps = 2

C28_WitnessChange ==
    /\ w_pc = "done"
    /\ w_result = 1
    /\ w_seen = <<2, 2, 1>>
    /\ w_sleeps = 2

\* C29: ensure_leader_health sleeps first when wait_time is not 0, then
\* writes through retry with at most 3 invocations, then reads once; the
\* write giving up does not raise, and the call raises exactly when the read
\* failed or did not show the id.
C29_SleepWriteRead ==
    /\ e_pc = "write" => (r_max = DefaultMaxRetries /\ Len(r_calls) <= DefaultMaxRetries)
    /\ e_pc \in {"read", "done"} =>
          /\ e_write.attempts \in 1..DefaultMaxRetries
          /\ ~e_write.ok => e_write.attempts = DefaultMaxRetries
    /\ e_pc = "read" =>
          e_steps = (IF e_wait # 0 THEN <<"sleep">> ELSE <<>>) \o <<"write">>
    /\ e_pc = "done" =>
          /\ e_steps = (IF e_wait # 0 THEN <<"sleep">> ELSE <<>>) \o <<"write", "read">>
          /\ (e_outcome = "raised") <=> (e_read \in {"empty", "failed"})
          /\ (e_outcome = "returned") <=> (e_read = "shown")

C29_Witness ==
    /\ e_pc = "done"
    /\ e_wait = 2
    /\ e_steps = <<"sleep", "write", "read">>
    /\ e_write = [attempts |-> 3, ok |-> FALSE]
    /\ e_read = "shown"
    /\ e_outcome = "returned"

C29_WitnessNoSleep ==
    /\ e_pc = "done"
    /\ e_wait = 0
    /\ e_steps = <<"write", "read">>
    /\ e_read = "empty"
    /\ e_outcome = "raised"

\* ------------------------------------------- properties: unknown actions
KnownActions == {"kill", "disconnect", "start", "connect"}

\* C30 as stated: a call with an unknown action raises ValueError and issues
\* no command.
C30_Original ==
    (f_pc = "done" /\ f_action \notin KnownActions) =>
        (f_outcome = "raised" /\ f_exc = "ValueError" /\ f_cmds = <<>>)

\* C30: a call with an unknown action raises, issues no command and leaves
\* the state of every container as it was.  restore_leader raises ValueError;
\* fail_leader looks the leader up before it looks at the action, so it
\* raises ValueError when the lookup returned and the exception of
\* get_leader_info when the lookup raised.
C30_UnknownActionFrame ==
    [][(f_pc' = "done" /\ f_pc # "done" /\ f_action' \notin KnownActions) =>
          /\ cstate' = cstate
          /\ f_cmds' = <<>>
          /\ d_last' = d_last
          /\ f_outcome' = "raised"
          /\ (f_op' = "restore" \/ f_node' # None) => f_exc' = "ValueError"
          /\ (f_op' = "fail" /\ f_node' = None) =>
                f_exc' \in {"AttributeError", "CalledProcessError", "IndexError"}
      ]_vars

C30_Witness ==
    /\ f_pc = "done"
    /\ f_op = "fail"
    /\ f_action = "stop"
    /\ f_node = 2
    /\ f_outcome = "raised"
    /\ f_exc = "ValueError"
    /\ f_cmds = <<>>

C30_WitnessRestore ==
    /\ f_pc = "done"
    /\ f_op = "restore"
    /\ f_action = "restart"
    /\ f_exc = "ValueError"
    /\ f_cmds = <<>>

\* ------------------------------------ properties: results without rows
\* C21 as stated: an output without data rows, be it header and separator
\* only or no lines at all, gives the empty list and no exception.
C21_EmptyListOnNoRows ==
    (p_pc = "done" /\ p_table.rows = <<>>) =>
        (p_out.outcome = "returned" /\ p_out.value = <<>>)

\* ------------------------------------------- properties: restart_docker
\* C22: restart_docker polls at most 10 rounds; it returns only after a round
\* that found every listed container running, which then was its last round;
\* it raises an Exception when no container is listed and when the 10 rounds
\* have passed without such a round.
C22_ReturnsOnlyWhenAllUp ==
    /\ rd_rounds.polled <= RestartAttempts
    /\ rd_attempts <= RestartAttempts
    /\ rd_rounds.polled \in {rd_attempts, rd_attempts - 1}
    /\ (rd_pc = "done" /\ rd_outcome = "returned") =>
          /\ rd_containers # <<>>
          /\ rd_rounds.polled >= 1
          /\ rd_rounds.all_up
          /\ \A i \in 1..Len(rd_containers) : rd_alive[i]
    /\ (rd_pc = "done" /\ rd_containers = <<>>) =>
          (rd_outcome = "raised" /\ IsInstance(rd_exc, "Exception"))
    /\ (rd_pc = "done" /\ rd_rounds.polled = RestartAttempts /\ ~rd_rounds.all_up) =>
          (rd_outcome = "raised" /\ IsInstance(rd_exc, "Exception"))
    /\ (rd_pc \in {"loop", "sleep"} => ~rd_rounds.all_up)

C22_Witness ==
    /\ rd_pc = "done"
    /\ rd_outcome = "returned"
    /\ Len(rd_containers) = 2
    /\ rd_rounds.polled = 10
    /\ rd_rounds.all_up
    /\ rd_sleeps = [poll |-> 9, settle |-> 1]

C22_WitnessExhausted ==
    /\ rd_pc = "done"
    /\ rd_outcome = "raised"
    /\ rd_exc = "Exception"
    /\ rd_rounds.polled = 10
    /\ ~rd_rounds.all_up
    /\ rd_sleeps = [poll |-> 10, settle |-> 0]

C22_WitnessEmpty ==
    /\ rd_pc = "done"
    /\ rd_containers = <<>>
    /\ rd_exc = "Exception"
    /\ rd_rounds.polled = 0

C23_WitnessConnect ==
    /\ cycle = "connect"
    /\ t_obs.before # None
    /\ t_obs.down # None
    /\ t_obs.after # None

C24_WitnessDisconnect ==
    /\ t_rows.disrupted
    /\ cycle = "connect"
    /\ t_rows.verified = "found"

\* ---------------------------------------- properties: the parallel runner
\* the futures whose result the loop over as_completed has added
Counted == {i \in collected : futures[i] = "finished"}

RECURSIVE SumOf(_, _)
SumOf(S, field) ==
    IF S = {} THEN 0
    ELSE LET i == CHOOSE k \in S : TRUE
         IN  results[i][field] + SumOf(S \ {i}, field)

Problems(S) ==
    SumOf(S, "errors") + SumOf(S, "failures") + SumOf(S, "unexpected_successes")

\* C25: the runner lets up to process_count suites run at once and nothing
\* makes a running suite wait for another one: whatever the other suites
\* have done to the cluster, a suite that has not yet acted can have its
\* fail_leader kill or disconnect, or its compose restart, take effect.
C25_NothingSerialises ==
    /\ Cardinality(Running) <= process_count
    /\ \A i \in 1..Len(futures) :
          (futures[i] = "running" /\ phase[i].at = "before") =>
              /\ \A action \in {"kill", "disconnect"} : \A cid \in ContainerIds :
                    ENABLED SuiteFail(i, action, cid)
              /\ ENABLED SuiteRestart(i)

C25_Witness ==
    /\ process_count >= 2
    /\ \E i, j \in Running :
          /\ i # j
          /\ phase[i].at = "failed"
          /\ phase[j].at = "failed"
          /\ phase[i].cid # phase[j].cid
          /\ Cardinality(DownContainers) = 2

C25_WitnessRestart ==
    \E i, j \in Running :
       /\ phase[i].at = "restarted"
       /\ phase[j] = [at |-> "failed", action |-> "kill", cid |-> Containers[1].id]
       /\ cstate[1].running

\* C26: the totals of main are the sums over the results of the finished
\* suites it has collected, each once; when it reports, every submitted
\* suite is finished or cancelled and all are collected, it reports success
\* exactly when no finished suite has an error, a failure or an unexpected
\* success, and otherwise its exit status is the number of those.
C26_TotalsAndStatus ==
    /\ \A field \in {"tests_run", "errors", "failures", "unexpected_successes"} :
          totals[field] = SumOf(Counted, field)
    /\ m_pc = "done" =>
          /\ collected = 1..Len(futures)
          /\ \A i \in 1..Len(futures) : futures[i] \in {"finished", "cancelled"}
          /\ (exit_status = 0) <=> (Problems(Counted) = 0)
          /\ exit_status = Problems(Counted)

C26_Witness ==
    /\ m_pc = "done"
    /\ Len(futures) = 2
    /\ Counted = {1, 2}
    /\ exit_status = 2
    /\ totals.tests_run = 3

C26_WitnessCancelled ==
    /\ m_pc = "done"
    /\ \E i \in 1..Len(futures) : futures[i] = "cancelled"
    /\ exit_status = 1

C26_WitnessSuccess ==
    /\ m_pc = "done"
    /\ Len(futures) = 2
    /\ exit_status = 0

\* ------------------------------------------- properties: get_leader_info
\* C31 as stated: a non-empty container_id that get_leader_info returns is the
\* id of the container of the leader's node, never that of another node.
C31_ContainerOfLeaderNode ==
    (g_pc = "ret" /\ g_ret.container_id # <<>>) =>
        \E i \in ContainersOfNode(g_ret.node_id) :
           Containers[i].id = g_ret.container_id

\* a step of get_db_id, get_all_replicas, get_leader_info or
\* wait_for_leader_change: it moves one of them on, and is not the step in
\* which fail_leader acts on what its lookup returned
ObservationStep ==
    /\ \/ wait_vars' # wait_vars
       \/ gli_vars' # gli_vars
       \/ t_obs' # t_obs
    /\ ~(f_pc = "info" /\ f_pc' = "done")

\* C32: a step of an observation operation issues no container command and
\* no reducer call and changes nothing outside the operation: the containers,
\* the leader, the counter row and the identity the harness reads are as
\* before, and nothing is recorded as failed.
C32_ObservationsOnlyRead ==
    [][ObservationStep =>
          UNCHANGED <<cstate, leader, row, database_identity, d_last, f_cmds,
                      last_failed, retry_vars>>]_vars

C32_Witness ==
    /\ w_pc = "done"
    /\ w_outcome = "returned"
    /\ Len(w_seen) >= 2
    /\ DownContainers # {}
    /\ t_obs.down # None

\* ------------------------------------------------- properties: is_running
\* the ports of container i that answered the last round's ping with 200
Answering(i) ==
    {k \in 1..Len(rd_rounds.ports[i]) : rd_rounds.ping[rd_rounds.ports[i][k]] = 200}

\* C33: is_running is True exactly for a container one of whose host ports
\* answers the ping with status 200, whatever the order of the ports and
\* whatever the other ports do; without host ports it is False; the error
\* of a ping never leaves it.
C33_RunningIffSomePortAnswers ==
    /\ rd_exc # "URLError"
    /\ rd_pc \in {"sleep", "settle"} =>
          \A i \in 1..Len(rd_containers) : rd_alive[i] <=> (Answering(i) # {})

C33_Witness ==
    /\ rd_pc = "sleep"
    /\ Len(rd_containers) = 2
    /\ rd_rounds.ports = <<<<1, 2>>, <<>>>>
    /\ rd_rounds.ping[1] = 0
    /\ rd_rounds.ping[2] = 200
    /\ rd_alive = <<TRUE, FALSE>>

C33_WitnessNon200 ==
    /\ rd_pc = "settle"
    /\ rd_rounds.ports[1] = <<2, 1>>
    /\ rd_rounds.ping[2] = 503
    /\ rd_rounds.ping[1] = 200

\* C34: at level 'class' every class suite is its own job: there are as many
\* futures as class suites, and no job runs two class suites one after the
\* other.
C34_OneJobPerClassSuite ==
    m_pc # "idle" =>
       /\ Len(futures) = Len(iter_class_suites(discover_suite, 1))
       /\ \A i \in 1..Len(futures) : discover_suite[i] = 1

\* ------------------------------------------------- properties: failfast
\* main has added a result that has shouldStop set
StopSeen == \E i \in Counted : results[i].shouldStop

C35_WitnessDone ==
    /\ m_pc = "done"
    /\ StopSeen
    /\ Cardinality(Counted) = 2
    /\ \E k \in 1..Len(futures) : futures[k] = "cancelled"

\* ----------------------------------------------- properties: ReturnThread
\* C36: a join without timeout that has come back found the thread ended; it
\* raised the exception the target raised, or else returned the value the
\* target returned. The caller that built the thread got its handle and no
\* exception, and a caller whose join has not come back has received nothing.
C36_JoinDeliversOutcome ==
    /\ \A j \in 1..MaxJoins :
          (joins[j].pc = "done" /\ ~joins[j].timeout) =>
             /\ th_state = "ended"
             /\ joins[j].out = th_target
    /\ th_state # "none" => c_out.kind = "returned"
    /\ \A j \in 1..MaxJoins : joins[j].pc # "done" => joins[j].out = NoOutcome

C36_Witness ==
    \E j \in 1..MaxJoins :
       /\ joins[j].pc = "done"
       /\ ~joins[j].timeout
       /\ joins[j].out.kind = "raised"
       /\ joins[j].out.exc = "CalledProcessError"

C36_WitnessReturned ==
    \E j \in 1..MaxJoins :
       /\ joins[j].pc = "done"
       /\ ~joins[j].timeout
       /\ joins[j].out = [kind |-> "returned", value |-> 1, exc |-> NoException]

\* ------------------------------------------ properties: find-publish-list
\* the crates of the workspace a crate depends on other than for development
NormalDeps(c) ==
    {pub_metadata[c][i].name : i \in {k \in 1..Len(pub_metadata[c]) :
        /\ pub_metadata[c][k].kind # "dev"
        /\ pub_metadata[c][k].name \in DOMAIN pub_metadata}}

\* the crates reached from S over at most n dependencies
RECURSIVE Reach(_, _)
Reach(S, n) ==
    IF n = 0 THEN S ELSE Reach(S \cup UNION {NormalDeps(c) : c \in S}, n - 1)

PositionsOf(c) == {i \in 1..Len(pub_order) : pub_order[i] = c}

\* C37: in recursive mode the printed order holds every root and every
\* transitive dependency exactly once and nothing else, and every crate
\* stands before every crate that depends on it.
C37_ValidPublishOrder ==
    (pub_pc = "done" /\ pub_recursive) =>
       LET wanted == Reach({pub_roots[i] : i \in 1..Len(pub_roots)}, Len(pub_metadata))
       IN  /\ \A c \in wanted : Cardinality(PositionsOf(c)) = 1
           /\ \A i \in 1..Len(pub_order) : pub_order[i] \in wanted
           /\ \A c \in wanted : \A d \in NormalDeps(c) :
                 \A i \in PositionsOf(c) : \A j \in PositionsOf(d) : j < i

\* a diamond: two crates share a dependency, and the last crate has a
\* dev-dependency back on the first
C37_Witness ==
    /\ pub_pc = "done"
    /\ pub_recursive
    /\ pub_roots = <<1>>
    /\ NormalDeps(1) = {2, 3}
    /\ NormalDeps(2) = {3}
    /\ Len(pub_metadata[3]) > 0
    /\ pub_order = <<3, 2, 1>>

\* ------------------------------- properties: the leader that is failed
\* C38 as stated: when fail_leader issues its kill or disconnect, the container
\* it names is the container of the node that is the leader at that moment.
C38_FailsCurrentLeader ==
    [][(f_pc = "info" /\ f_op = "fail" /\ f_cmds' # f_cmds) =>
          /\ leader # NoRow
          /\ \E i \in ContainersOfNode(NodeOf[leader]) :
                Containers[i].id = g_ret.container_id
      ]_vars

\* ------------------------------------------- properties: the loop tests
\* C39 as stated: a loop test has at most one container failed at a time, and
\* when it ends, whether it passed or an exception left it, every container
\* it failed has been restored.
C39_RestoredOnEveryExit ==
    /\ Cardinality(ts_failed) <= 1
    /\ ts_pc = "ended" => (ts_failed = {} /\ DownContainers = {})

====
